---- MODULE Spec2Model ----
\* A model of build/mainline_modules_sdks.py: the build release registry, the
\* module descriptors, the selection of transformations, the two Android.bp
\* rewrites and the run of SdkDistProducer.produce_dist.
EXTENDS Integers, Sequences, FiniteSets, TLC

\* String values of the script. A string is the sequence of its code points, so
\* that concatenation is \o and endswith, replace and sorted can be computed.
\* Each field of str is one string literal of the script, named after its text.
str ==
  [ for_dash |-> <<102, 111, 114, 45>>,   \* "for-"
    dash_build |-> <<45, 98, 117, 105, 108, 100>>,   \* "-build"
    SOONG_SDK_SNAPSHOT_TARGET_BUILD_RELEASE |-> <<83, 79, 79, 78, 71, 95, 83, 68, 75, 95, 83, 78, 65, 80, 83, 72, 79, 84, 95, 84, 65, 82, 71, 69, 84, 95, 66, 85, 73, 76, 68, 95, 82, 69, 76, 69, 65, 83, 69>>,   \* "SOONG_SDK_SNAPSHOT_TARGET_BUILD_RELEASE"
    current |-> <<99, 117, 114, 114, 101, 110, 116>>,   \* "current"
    dash |-> <<45>>,   \* "-"
    dot_zip |-> <<46, 122, 105, 112>>,   \* ".zip"
    mainline_sdks |-> <<109, 97, 105, 110, 108, 105, 110, 101, 45, 115, 100, 107, 115>>,   \* "mainline-sdks"
    bundled_mainline_sdks |-> <<98, 117, 110, 100, 108, 101, 100, 45, 109, 97, 105, 110, 108, 105, 110, 101, 45, 115, 100, 107, 115>>,   \* "bundled-mainline-sdks"
    sdk |-> <<115, 100, 107>>,   \* "sdk"
    host_exports |-> <<104, 111, 115, 116, 45, 101, 120, 112, 111, 114, 116, 115>>,   \* "host-exports"
    test_exports |-> <<116, 101, 115, 116, 45, 101, 120, 112, 111, 114, 116, 115>>,   \* "test-exports"
    dash_sdk |-> <<45, 115, 100, 107>>,   \* "-sdk"
    dash_host_exports |-> <<45, 104, 111, 115, 116, 45, 101, 120, 112, 111, 114, 116, 115>>,   \* "-host-exports"
    dash_test_exports |-> <<45, 116, 101, 115, 116, 45, 101, 120, 112, 111, 114, 116, 115>>,   \* "-test-exports"
    empty |-> <<>>,   \* ""
    us_host_exports |-> <<95, 104, 111, 115, 116, 95, 101, 120, 112, 111, 114, 116, 115>>,   \* "_host_exports"
    us_test_exports |-> <<95, 116, 101, 115, 116, 95, 101, 120, 112, 111, 114, 116, 115>>,   \* "_test_exports"
    us_prebuilt_us |-> <<95, 112, 114, 101, 98, 117, 105, 108, 116, 95>>,   \* "_prebuilt_"
    ANDROID |-> <<65, 78, 68, 82, 79, 73, 68>>,   \* "ANDROID"
    module_build_from_source |-> <<109, 111, 100, 117, 108, 101, 95, 98, 117, 105, 108, 100, 95, 102, 114, 111, 109, 95, 115, 111, 117, 114, 99, 101>>,   \* "module_build_from_source"
    source_build |-> <<115, 111, 117, 114, 99, 101, 95, 98, 117, 105, 108, 100>>,   \* "source_build"
    us_module |-> <<95, 109, 111, 100, 117, 108, 101>>,   \* "_module"
    Android_bp |-> <<65, 110, 100, 114, 111, 105, 100, 46, 98, 112>>,   \* "Android.bp"
    soong_config_module_type |-> <<115, 111, 111, 110, 103, 95, 99, 111, 110, 102, 105, 103, 95, 109, 111, 100, 117, 108, 101, 95, 116, 121, 112, 101>>,   \* "soong_config_module_type"
    soong_mainline_sdks |-> <<115, 111, 111, 110, 103, 47, 109, 97, 105, 110, 108, 105, 110, 101, 45, 115, 100, 107, 115>>,   \* "soong/mainline-sdks"
    for_R_build |-> <<102, 111, 114, 45, 82, 45, 98, 117, 105, 108, 100>>,   \* "for-R-build"
    gantry_metadata_json |-> <<103, 97, 110, 116, 114, 121, 45, 109, 101, 116, 97, 100, 97, 116, 97, 46, 106, 115, 111, 110>>,   \* "gantry-metadata.json"
    dash_api_diff_txt |-> <<45, 97, 112, 105, 45, 100, 105, 102, 102, 46, 116, 120, 116>>,   \* "-api-diff.txt"
    dash_gantry_metadata_json |-> <<45, 103, 97, 110, 116, 114, 121, 45, 109, 101, 116, 97, 100, 97, 116, 97, 46, 106, 115, 111, 110>>,   \* "-gantry-metadata.json"
    com_android_ |-> <<99, 111, 109, 46, 97, 110, 100, 114, 111, 105, 100, 46>>,   \* "com.android."
    com_google_android_ |-> <<99, 111, 109, 46, 103, 111, 111, 103, 108, 101, 46, 97, 110, 100, 114, 111, 105, 100, 46>>,   \* "com.google.android."
    Q |-> <<81>>,   \* "Q"
    R |-> <<82>>,   \* "R"
    S |-> <<83>>,   \* "S"
    Tiramisu |-> <<84, 105, 114, 97, 109, 105, 115, 117>>,   \* "Tiramisu"
    UpsideDownCake |-> <<85, 112, 115, 105, 100, 101, 68, 111, 119, 110, 67, 97, 107, 101>>,   \* "UpsideDownCake"
    next |-> <<110, 101, 120, 116>>,   \* "next"
    latest |-> <<108, 97, 116, 101, 115, 116>>,   \* "latest"
    com_android_adservices |-> <<99, 111, 109, 46, 97, 110, 100, 114, 111, 105, 100, 46, 97, 100, 115, 101, 114, 118, 105, 99, 101, 115>>,   \* "com.android.adservices"
    adservices_module_sdk |-> <<97, 100, 115, 101, 114, 118, 105, 99, 101, 115, 45, 109, 111, 100, 117, 108, 101, 45, 115, 100, 107>>,   \* "adservices-module-sdk"
    com_android_appsearch |-> <<99, 111, 109, 46, 97, 110, 100, 114, 111, 105, 100, 46, 97, 112, 112, 115, 101, 97, 114, 99, 104>>,   \* "com.android.appsearch"
    appsearch_sdk |-> <<97, 112, 112, 115, 101, 97, 114, 99, 104, 45, 115, 100, 107>>,   \* "appsearch-sdk"
    com_android_art |-> <<99, 111, 109, 46, 97, 110, 100, 114, 111, 105, 100, 46, 97, 114, 116>>,   \* "com.android.art"
    art_module_sdk |-> <<97, 114, 116, 45, 109, 111, 100, 117, 108, 101, 45, 115, 100, 107>>,   \* "art-module-sdk"
    art_module_test_exports |-> <<97, 114, 116, 45, 109, 111, 100, 117, 108, 101, 45, 116, 101, 115, 116, 45, 101, 120, 112, 111, 114, 116, 115>>,   \* "art-module-test-exports"
    art_module_host_exports |-> <<97, 114, 116, 45, 109, 111, 100, 117, 108, 101, 45, 104, 111, 115, 116, 45, 101, 120, 112, 111, 114, 116, 115>>,   \* "art-module-host-exports"
    art_module |-> <<97, 114, 116, 95, 109, 111, 100, 117, 108, 101>>,   \* "art_module"
    com_android_btservices |-> <<99, 111, 109, 46, 97, 110, 100, 114, 111, 105, 100, 46, 98, 116, 115, 101, 114, 118, 105, 99, 101, 115>>,   \* "com.android.btservices"
    btservices_module_sdk |-> <<98, 116, 115, 101, 114, 118, 105, 99, 101, 115, 45, 109, 111, 100, 117, 108, 101, 45, 115, 100, 107>>,   \* "btservices-module-sdk"
    com_android_configinfrastructure |-> <<99, 111, 109, 46, 97, 110, 100, 114, 111, 105, 100, 46, 99, 111, 110, 102, 105, 103, 105, 110, 102, 114, 97, 115, 116, 114, 117, 99, 116, 117, 114, 101>>,   \* "com.android.configinfrastructure"
    configinfrastructure_sdk |-> <<99, 111, 110, 102, 105, 103, 105, 110, 102, 114, 97, 115, 116, 114, 117, 99, 116, 117, 114, 101, 45, 115, 100, 107>>,   \* "configinfrastructure-sdk"
    com_android_conscrypt |-> <<99, 111, 109, 46, 97, 110, 100, 114, 111, 105, 100, 46, 99, 111, 110, 115, 99, 114, 121, 112, 116>>,   \* "com.android.conscrypt"
    conscrypt_module_sdk |-> <<99, 111, 110, 115, 99, 114, 121, 112, 116, 45, 109, 111, 100, 117, 108, 101, 45, 115, 100, 107>>,   \* "conscrypt-module-sdk"
    conscrypt_module_test_exports |-> <<99, 111, 110, 115, 99, 114, 121, 112, 116, 45, 109, 111, 100, 117, 108, 101, 45, 116, 101, 115, 116, 45, 101, 120, 112, 111, 114, 116, 115>>,   \* "conscrypt-module-test-exports"
    conscrypt_module_host_exports |-> <<99, 111, 110, 115, 99, 114, 121, 112, 116, 45, 109, 111, 100, 117, 108, 101, 45, 104, 111, 115, 116, 45, 101, 120, 112, 111, 114, 116, 115>>,   \* "conscrypt-module-host-exports"
    com_android_devicelock |-> <<99, 111, 109, 46, 97, 110, 100, 114, 111, 105, 100, 46, 100, 101, 118, 105, 99, 101, 108, 111, 99, 107>>,   \* "com.android.devicelock"
    devicelock_module_sdk |-> <<100, 101, 118, 105, 99, 101, 108, 111, 99, 107, 45, 109, 111, 100, 117, 108, 101, 45, 115, 100, 107>>,   \* "devicelock-module-sdk"
    com_android_healthfitness |-> <<99, 111, 109, 46, 97, 110, 100, 114, 111, 105, 100, 46, 104, 101, 97, 108, 116, 104, 102, 105, 116, 110, 101, 115, 115>>,   \* "com.android.healthfitness"
    healthfitness_module_sdk |-> <<104, 101, 97, 108, 116, 104, 102, 105, 116, 110, 101, 115, 115, 45, 109, 111, 100, 117, 108, 101, 45, 115, 100, 107>>,   \* "healthfitness-module-sdk"
    com_android_ipsec |-> <<99, 111, 109, 46, 97, 110, 100, 114, 111, 105, 100, 46, 105, 112, 115, 101, 99>>,   \* "com.android.ipsec"
    ipsec_module_sdk |-> <<105, 112, 115, 101, 99, 45, 109, 111, 100, 117, 108, 101, 45, 115, 100, 107>>,   \* "ipsec-module-sdk"
    android_net_ipsec_ike |-> <<97, 110, 100, 114, 111, 105, 100, 46, 110, 101, 116, 46, 105, 112, 115, 101, 99, 46, 105, 107, 101>>,   \* "android.net.ipsec.ike"
    com_android_media |-> <<99, 111, 109, 46, 97, 110, 100, 114, 111, 105, 100, 46, 109, 101, 100, 105, 97>>,   \* "com.android.media"
    media_module_sdk |-> <<109, 101, 100, 105, 97, 45, 109, 111, 100, 117, 108, 101, 45, 115, 100, 107>>,   \* "media-module-sdk"
    framework_media |-> <<102, 114, 97, 109, 101, 119, 111, 114, 107, 45, 109, 101, 100, 105, 97>>,   \* "framework-media"
    com_android_mediaprovider |-> <<99, 111, 109, 46, 97, 110, 100, 114, 111, 105, 100, 46, 109, 101, 100, 105, 97, 112, 114, 111, 118, 105, 100, 101, 114>>,   \* "com.android.mediaprovider"
    mediaprovider_module_sdk |-> <<109, 101, 100, 105, 97, 112, 114, 111, 118, 105, 100, 101, 114, 45, 109, 111, 100, 117, 108, 101, 45, 115, 100, 107>>,   \* "mediaprovider-module-sdk"
    framework_mediaprovider |-> <<102, 114, 97, 109, 101, 119, 111, 114, 107, 45, 109, 101, 100, 105, 97, 112, 114, 111, 118, 105, 100, 101, 114>>,   \* "framework-mediaprovider"
    com_android_ondevicepersonalization |-> <<99, 111, 109, 46, 97, 110, 100, 114, 111, 105, 100, 46, 111, 110, 100, 101, 118, 105, 99, 101, 112, 101, 114, 115, 111, 110, 97, 108, 105, 122, 97, 116, 105, 111, 110>>,   \* "com.android.ondevicepersonalization"
    ondevicepersonalization_module_sdk |-> <<111, 110, 100, 101, 118, 105, 99, 101, 112, 101, 114, 115, 111, 110, 97, 108, 105, 122, 97, 116, 105, 111, 110, 45, 109, 111, 100, 117, 108, 101, 45, 115, 100, 107>>,   \* "ondevicepersonalization-module-sdk"
    com_android_permission |-> <<99, 111, 109, 46, 97, 110, 100, 114, 111, 105, 100, 46, 112, 101, 114, 109, 105, 115, 115, 105, 111, 110>>,   \* "com.android.permission"
    permission_module_sdk |-> <<112, 101, 114, 109, 105, 115, 115, 105, 111, 110, 45, 109, 111, 100, 117, 108, 101, 45, 115, 100, 107>>,   \* "permission-module-sdk"
    framework_permission |-> <<102, 114, 97, 109, 101, 119, 111, 114, 107, 45, 112, 101, 114, 109, 105, 115, 115, 105, 111, 110>>,   \* "framework-permission"
    com_android_rkpd |-> <<99, 111, 109, 46, 97, 110, 100, 114, 111, 105, 100, 46, 114, 107, 112, 100>>,   \* "com.android.rkpd"
    rkpd_sdk |-> <<114, 107, 112, 100, 45, 115, 100, 107>>,   \* "rkpd-sdk"
    com_android_scheduling |-> <<99, 111, 109, 46, 97, 110, 100, 114, 111, 105, 100, 46, 115, 99, 104, 101, 100, 117, 108, 105, 110, 103>>,   \* "com.android.scheduling"
    scheduling_sdk |-> <<115, 99, 104, 101, 100, 117, 108, 105, 110, 103, 45, 115, 100, 107>>,   \* "scheduling-sdk"
    com_android_sdkext |-> <<99, 111, 109, 46, 97, 110, 100, 114, 111, 105, 100, 46, 115, 100, 107, 101, 120, 116>>,   \* "com.android.sdkext"
    sdkextensions_sdk |-> <<115, 100, 107, 101, 120, 116, 101, 110, 115, 105, 111, 110, 115, 45, 115, 100, 107>>,   \* "sdkextensions-sdk"
    framework_sdkextensions |-> <<102, 114, 97, 109, 101, 119, 111, 114, 107, 45, 115, 100, 107, 101, 120, 116, 101, 110, 115, 105, 111, 110, 115>>,   \* "framework-sdkextensions"
    com_android_os_statsd |-> <<99, 111, 109, 46, 97, 110, 100, 114, 111, 105, 100, 46, 111, 115, 46, 115, 116, 97, 116, 115, 100>>,   \* "com.android.os.statsd"
    statsd_module_sdk |-> <<115, 116, 97, 116, 115, 100, 45, 109, 111, 100, 117, 108, 101, 45, 115, 100, 107>>,   \* "statsd-module-sdk"
    framework_statsd |-> <<102, 114, 97, 109, 101, 119, 111, 114, 107, 45, 115, 116, 97, 116, 115, 100>>,   \* "framework-statsd"
    com_android_tethering |-> <<99, 111, 109, 46, 97, 110, 100, 114, 111, 105, 100, 46, 116, 101, 116, 104, 101, 114, 105, 110, 103>>,   \* "com.android.tethering"
    tethering_module_sdk |-> <<116, 101, 116, 104, 101, 114, 105, 110, 103, 45, 109, 111, 100, 117, 108, 101, 45, 115, 100, 107>>,   \* "tethering-module-sdk"
    framework_tethering |-> <<102, 114, 97, 109, 101, 119, 111, 114, 107, 45, 116, 101, 116, 104, 101, 114, 105, 110, 103>>,   \* "framework-tethering"
    com_android_uwb |-> <<99, 111, 109, 46, 97, 110, 100, 114, 111, 105, 100, 46, 117, 119, 98>>,   \* "com.android.uwb"
    uwb_module_sdk |-> <<117, 119, 98, 45, 109, 111, 100, 117, 108, 101, 45, 115, 100, 107>>,   \* "uwb-module-sdk"
    com_android_wifi |-> <<99, 111, 109, 46, 97, 110, 100, 114, 111, 105, 100, 46, 119, 105, 102, 105>>,   \* "com.android.wifi"
    wifi_module_sdk |-> <<119, 105, 102, 105, 45, 109, 111, 100, 117, 108, 101, 45, 115, 100, 107>>,   \* "wifi-module-sdk"
    framework_wifi |-> <<102, 114, 97, 109, 101, 119, 111, 114, 107, 45, 119, 105, 102, 105>>,   \* "framework-wifi"
    com_android_i18n |-> <<99, 111, 109, 46, 97, 110, 100, 114, 111, 105, 100, 46, 105, 49, 56, 110>>,   \* "com.android.i18n"
    i18n_module_sdk |-> <<105, 49, 56, 110, 45, 109, 111, 100, 117, 108, 101, 45, 115, 100, 107>>,   \* "i18n-module-sdk"
    i18n_module_test_exports |-> <<105, 49, 56, 110, 45, 109, 111, 100, 117, 108, 101, 45, 116, 101, 115, 116, 45, 101, 120, 112, 111, 114, 116, 115>>,   \* "i18n-module-test-exports"
    i18n_module_host_exports |-> <<105, 49, 56, 110, 45, 109, 111, 100, 117, 108, 101, 45, 104, 111, 115, 116, 45, 101, 120, 112, 111, 114, 116, 115>>,   \* "i18n-module-host-exports"
    com_android_runtime |-> <<99, 111, 109, 46, 97, 110, 100, 114, 111, 105, 100, 46, 114, 117, 110, 116, 105, 109, 101>>,   \* "com.android.runtime"
    runtime_module_host_exports |-> <<114, 117, 110, 116, 105, 109, 101, 45, 109, 111, 100, 117, 108, 101, 45, 104, 111, 115, 116, 45, 101, 120, 112, 111, 114, 116, 115>>,   \* "runtime-module-host-exports"
    runtime_module_sdk |-> <<114, 117, 110, 116, 105, 109, 101, 45, 109, 111, 100, 117, 108, 101, 45, 115, 100, 107>>,   \* "runtime-module-sdk"
    com_android_tzdata |-> <<99, 111, 109, 46, 97, 110, 100, 114, 111, 105, 100, 46, 116, 122, 100, 97, 116, 97>>,   \* "com.android.tzdata"
    tzdata_module_test_exports |-> <<116, 122, 100, 97, 116, 97, 45, 109, 111, 100, 117, 108, 101, 45, 116, 101, 115, 116, 45, 101, 120, 112, 111, 114, 116, 115>>,   \* "tzdata-module-test-exports"
    platform_mainline |-> <<112, 108, 97, 116, 102, 111, 114, 109, 45, 109, 97, 105, 110, 108, 105, 110, 101>>,   \* "platform-mainline"
    platform_mainline_sdk |-> <<112, 108, 97, 116, 102, 111, 114, 109, 45, 109, 97, 105, 110, 108, 105, 110, 101, 45, 115, 100, 107>>,   \* "platform-mainline-sdk"
    platform_mainline_test_exports |-> <<112, 108, 97, 116, 102, 111, 114, 109, 45, 109, 97, 105, 110, 108, 105, 110, 101, 45, 116, 101, 115, 116, 45, 101, 120, 112, 111, 114, 116, 115>> ]   \* "platform-mainline-test-exports"

\* Each field of test_str is one string literal of the test of the script.
test_str ==
  [ foo_module |-> <<102, 111, 111, 95, 109, 111, 100, 117, 108, 101>>,   \* "foo_module"
    bar |-> <<98, 97, 114>>,   \* "bar"
    pre_us |-> <<112, 114, 101, 95>>,   \* "pre_"
    ns |-> <<110, 115>>,   \* "ns"
    var |-> <<118, 97, 114>>,   \* "var"
    com_android_adbd |-> <<99, 111, 109, 46, 97, 110, 100, 114, 111, 105, 100, 46, 97, 100, 98, 100>> ]   \* "com.android.adbd"
\* ---------------------------------------------------------------------------
\* Python values
\* ---------------------------------------------------------------------------

\* An Optional[...] field: None is the empty sequence, a value v is <<v>>.
None == <<>>
Some(v) == <<v>>

\* str.endswith
EndsWith(s, suffix) ==
  /\ Len(s) >= Len(suffix)
  /\ SubSeq(s, Len(s) - Len(suffix) + 1, Len(s)) = suffix

\* str.startswith
StartsWith(s, prefix) ==
  /\ Len(s) >= Len(prefix)
  /\ SubSeq(s, 1, Len(prefix)) = prefix

\* The position of the last "." in s, 0 when there is none.
RECURSIVE LastDot(_, _)
LastDot(s, i) ==
  IF i = 0 THEN 0
  ELSE IF s[i] = 46 THEN i
  ELSE LastDot(s, i - 1)

\* apex.rsplit(".", 1)[-1]
LastComponent(s) == SubSeq(s, LastDot(s, Len(s)) + 1, Len(s))

\* The order of str: lexicographic by code point.
RECURSIVE StrLess(_, _)
StrLess(a, b) ==
  IF b = <<>> THEN FALSE
  ELSE IF a = <<>> THEN TRUE
  ELSE IF a[1] < b[1] THEN TRUE
  ELSE IF a[1] > b[1] THEN FALSE
  ELSE StrLess(Tail(a), Tail(b))

\* sorted(set of str)
RECURSIVE sorted(_)
sorted(set) ==
  IF set = {} THEN <<>>
  ELSE LET least == CHOOSE x \in set : \A y \in set \ {x} : StrLess(x, y)
       IN  <<least>> \o sorted(set \ {least})

\* The elements of a sequence.
Range(seq) == {seq[i] : i \in DOMAIN seq}

\* The concatenation of a sequence of sequences.
RECURSIVE Flatten(_)
Flatten(seqs) ==
  IF seqs = <<>> THEN <<>> ELSE Head(seqs) \o Flatten(Tail(seqs))

\* ---------------------------------------------------------------------------
\* ConfigVar, PreferHandling, BuildRelease and the registry ALL_BUILD_RELEASES
\* ---------------------------------------------------------------------------

ConfigVar(namespace, name) == [namespace |-> namespace, name |-> name]

PreferHandling == {"NONE", "SOONG_CONFIG", "USE_SOURCE_CONFIG_VAR_PROPERTY"}

\* BuildRelease.__post_init__ with the ordinal taken after the instance has
\* been appended to the registry.
BuildRelease_appended_first(all, args) ==
  Append(all,
    [name |-> args.name,
     creator |-> args.creator,
     sub_dir |-> IF args.sub_dir = None
                 THEN str.for_dash \o args.name \o str.dash_build
                 ELSE args.sub_dir[1],
     soong_env |-> IF args.soong_env = None
                   THEN <<<<str.SOONG_SDK_SNAPSHOT_TARGET_BUILD_RELEASE, args.name>>>>
                   ELSE args.soong_env[1],
     ordinal |-> Len(all) + 1,
     preferHandling |-> args.preferHandling,
     include_flagged_apis |-> args.include_flagged_apis,
     generate_gantry_metadata_and_api_diff |-> args.generate_gantry_metadata_and_api_diff])

\* BuildRelease.__post_init__ on a registry all: the ordinal is the length of
\* the registry, the instance is appended, and the unset sub_dir and soong_env
\* get their defaults.
BuildRelease(all, args) ==
  Append(all,
    [name |-> args.name,
     creator |-> args.creator,
     sub_dir |-> IF args.sub_dir = None
                 THEN str.for_dash \o args.name \o str.dash_build
                 ELSE args.sub_dir[1],
     soong_env |-> IF args.soong_env = None
                   THEN <<<<str.SOONG_SDK_SNAPSHOT_TARGET_BUILD_RELEASE, args.name>>>>
                   ELSE args.soong_env[1],
     ordinal |-> Len(all),
     preferHandling |-> args.preferHandling,
     include_flagged_apis |-> args.include_flagged_apis,
     generate_gantry_metadata_and_api_diff |-> args.generate_gantry_metadata_and_api_diff])

\* The BuildRelease(...) calls of the script, in the order they are executed.
BuildReleaseCalls ==
  << [name |-> str.Q, creator |-> "create_no_dist_snapshot",
      sub_dir |-> None, soong_env |-> None, preferHandling |-> "NONE",
      include_flagged_apis |-> FALSE, generate_gantry_metadata_and_api_diff |-> FALSE],
     [name |-> str.R, creator |-> "create_dist_snapshot_for_r",
      sub_dir |-> None, soong_env |-> Some(<<>>), preferHandling |-> "NONE",
      include_flagged_apis |-> FALSE, generate_gantry_metadata_and_api_diff |-> FALSE],
     [name |-> str.S, creator |-> "create_sdk_snapshots_in_soong",
      sub_dir |-> None, soong_env |-> None, preferHandling |-> "SOONG_CONFIG",
      include_flagged_apis |-> FALSE, generate_gantry_metadata_and_api_diff |-> FALSE],
     [name |-> str.Tiramisu, creator |-> "create_sdk_snapshots_in_soong",
      sub_dir |-> None, soong_env |-> None,
      preferHandling |-> "USE_SOURCE_CONFIG_VAR_PROPERTY",
      include_flagged_apis |-> FALSE, generate_gantry_metadata_and_api_diff |-> FALSE],
     [name |-> str.UpsideDownCake, creator |-> "create_sdk_snapshots_in_soong",
      sub_dir |-> None, soong_env |-> None,
      preferHandling |-> "USE_SOURCE_CONFIG_VAR_PROPERTY",
      include_flagged_apis |-> FALSE, generate_gantry_metadata_and_api_diff |-> FALSE],
     [name |-> str.next, creator |-> "create_latest_sdk_snapshots",
      sub_dir |-> None, soong_env |-> Some(<<>>),
      preferHandling |-> "USE_SOURCE_CONFIG_VAR_PROPERTY",
      include_flagged_apis |-> FALSE, generate_gantry_metadata_and_api_diff |-> TRUE],
     [name |-> str.latest, creator |-> "create_latest_sdk_snapshots",
      sub_dir |-> None, soong_env |-> Some(<<>>),
      preferHandling |-> "USE_SOURCE_CONFIG_VAR_PROPERTY",
      include_flagged_apis |-> TRUE, generate_gantry_metadata_and_api_diff |-> TRUE] >>

\* The registry after the first n BuildRelease(...) calls of the script.
RECURSIVE RegistryAfter(_)
RegistryAfter(n) ==
  IF n = 0 THEN <<>> ELSE BuildRelease(RegistryAfter(n - 1), BuildReleaseCalls[n])

ALL_BUILD_RELEASES == RegistryAfter(Len(BuildReleaseCalls))

Q == ALL_BUILD_RELEASES[1]
R == ALL_BUILD_RELEASES[2]
S == ALL_BUILD_RELEASES[3]
Tiramisu == ALL_BUILD_RELEASES[4]
UpsideDownCake == ALL_BUILD_RELEASES[5]
NEXT == ALL_BUILD_RELEASES[6]
LATEST == ALL_BUILD_RELEASES[7]

\* BuildRelease.__eq__
BuildRelease__eq__(self, other) == self.ordinal = other.ordinal

\* BuildRelease.__le__ written with < in place of <=.
BuildRelease__le__strict(self, other) == self.ordinal < other.ordinal

\* BuildRelease.__le__
BuildRelease__le__(self, other) == self.ordinal <= other.ordinal

\* BuildRelease.__gt__, which functools.total_ordering derives from __le__.
BuildRelease__gt__(self, other) == ~BuildRelease__le__(self, other)

\* ---------------------------------------------------------------------------
\* SdkType
\* ---------------------------------------------------------------------------

SdkType(name, configModuleTypePrefix, providesApis) ==
  [name |-> name, configModuleTypePrefix |-> configModuleTypePrefix,
   providesApis |-> providesApis]

Sdk == SdkType(str.sdk, str.empty, TRUE)
HostExports == SdkType(str.host_exports, str.us_host_exports, FALSE)
TestExports == SdkType(str.test_exports, str.us_test_exports, FALSE)

\* The result of a call: a returned value, or a raised exception.
Returned(v) == [raised |-> FALSE, value |-> <<v>>]
Raised(about) == [raised |-> TRUE, value |-> <<about>>]

\* sdk_type_from_name: the exception names the sdk name.
sdk_type_from_name(name) ==
  IF EndsWith(name, str.dash_sdk) THEN Returned(Sdk)
  ELSE IF EndsWith(name, str.dash_host_exports) THEN Returned(HostExports)
  ELSE IF EndsWith(name, str.dash_test_exports) THEN Returned(TestExports)
  ELSE Raised(name)

\* ---------------------------------------------------------------------------
\* MainlineModule and BundledMainlineModule
\* ---------------------------------------------------------------------------

SdkLibrary(name, shared_library) == [name |-> name, shared_library |-> shared_library]

ForRBuild(sdk_libraries) == [sdk_libraries |-> sdk_libraries]

\* The dataclass with every field given; __post_init__ sets an empty short_name
\* to the last component of the apex name.
MainlineModuleOf(apex, sdks, first_release, configVar, for_r_build, last_optional_release, short_name, additional_transformations, bundled) ==
  [apex |-> apex,
   sdks |-> sdks,
   first_release |-> first_release,
   configVar |-> configVar,
   for_r_build |-> for_r_build,
   last_optional_release |-> last_optional_release,
   short_name |-> IF short_name = str.empty THEN LastComponent(apex) ELSE short_name,
   additional_transformations |-> additional_transformations,
   bundled |-> bundled]

MainlineModule(apex, sdks, first_release, configVar, for_r_build, last_optional_release) ==
  MainlineModuleOf(apex, sdks, first_release, configVar, for_r_build,
                   last_optional_release, str.empty, <<>>, FALSE)

\* first_release defaults to LATEST, configVar to ANDROID/module_build_from_source.
BundledMainlineModule(apex, sdks) ==
  MainlineModuleOf(apex, sdks, LATEST,
                   ConfigVar(str.ANDROID, str.module_build_from_source),
                   None, None, str.empty, <<>>, TRUE)

\* MainlineModule.is_bundled / BundledMainlineModule.is_bundled
is_bundled(self) == self.bundled

\* MainlineModule.is_required_for
is_required_for(self, target_build_release) ==
  BuildRelease__le__(self.first_release, target_build_release)

SoongConfigBoilerplateInserter(path, configVar, configModuleTypePrefix) ==
  [type |-> "SoongConfigBoilerplateInserter", path |-> path,
   configVar |-> configVar, configModuleTypePrefix |-> configModuleTypePrefix]

UseSourceConfigVarTransformation(path, configVar) ==
  [type |-> "UseSourceConfigVarTransformation", path |-> path,
   configVar |-> configVar, configModuleTypePrefix |-> str.empty]

\* transformations without the variable of an optional module: the configVar
\* field of the module is used for every module.
config_var_shared(self) == self.configVar

\* MainlineModule.transformations: config_var, the Soong config variable of
\* the prefer transformation. A BuildRelease object is true in a condition.
config_var(self) ==
  IF self.last_optional_release # None
  THEN ConfigVar(self.short_name \o str.us_module, str.source_build)
  ELSE self.configVar

\* transformations with the prefer transformation put in twice.
prefer_transformations_twice(self, build_release, sdk_type) ==
  LET prefer_handling == build_release.preferHandling
  IN  IF prefer_handling = "SOONG_CONFIG"
      THEN <<SoongConfigBoilerplateInserter(
               str.Android_bp, config_var(self),
               self.short_name \o sdk_type.configModuleTypePrefix \o str.us_prebuilt_us),
             UseSourceConfigVarTransformation(str.Android_bp, config_var(self))>>
      ELSE IF prefer_handling = "USE_SOURCE_CONFIG_VAR_PROPERTY"
      THEN <<UseSourceConfigVarTransformation(str.Android_bp, config_var(self))>>
      ELSE <<>>

\* MainlineModule.transformations: the list after the chain of tests of
\* prefer_handling, which has no branch for a value it does not name.
prefer_transformations(self, build_release, sdk_type) ==
  LET prefer_handling == build_release.preferHandling
  IN  IF prefer_handling = "SOONG_CONFIG"
      THEN <<SoongConfigBoilerplateInserter(
               str.Android_bp, config_var(self),
               self.short_name \o sdk_type.configModuleTypePrefix \o str.us_prebuilt_us)>>
      ELSE IF prefer_handling = "USE_SOURCE_CONFIG_VAR_PROPERTY"
      THEN <<UseSourceConfigVarTransformation(str.Android_bp, config_var(self))>>
      ELSE <<>>

\* transformations with the additional transformations from R on and not
\* only after R.
MainlineModule_transformations_from_R(self, build_release, sdk_type) ==
  IF self.additional_transformations # <<>> /\ BuildRelease__le__(R, build_release)
  THEN prefer_transformations(self, build_release, sdk_type)
         \o self.additional_transformations
  ELSE prefer_transformations(self, build_release, sdk_type)

\* MainlineModule.transformations, the method of the unbundled class.
MainlineModule_transformations(self, build_release, sdk_type) ==
  IF self.additional_transformations # <<>> /\ BuildRelease__gt__(build_release, R)
  THEN prefer_transformations(self, build_release, sdk_type)
         \o self.additional_transformations
  ELSE prefer_transformations(self, build_release, sdk_type)

\* BundledMainlineModule without its own transformations method: the method of
\* MainlineModule is inherited.
BundledMainlineModule_transformations_inherited(self, build_release, sdk_type) ==
  MainlineModule_transformations(self, build_release, sdk_type)

\* BundledMainlineModule.transformations
BundledMainlineModule_transformations(self, build_release, sdk_type) == <<>>

\* module.transformations(build_release, sdk_type), dispatched on the class.
transformations(self, build_release, sdk_type) ==
  IF is_bundled(self)
  THEN BundledMainlineModule_transformations(self, build_release, sdk_type)
  ELSE MainlineModule_transformations(self, build_release, sdk_type)


\* The code points for which str.isspace is true, at which str.split() splits.
Whitespace ==
  (9..13) \cup (28..32) \cup {133, 160, 5760} \cup (8192..8202)
  \cup {8232, 8233, 8239, 8287, 12288}

\* str.split(): the words of s, which are separated by runs of whitespace;
\* word is the part of the current word that has been read, and a word ends
\* at a whitespace character and at the end of s.
RECURSIVE split(_, _)
split(s, word) ==
  IF s = <<>> THEN (IF word = <<>> THEN <<>> ELSE <<word>>)
  ELSE (IF Head(s) \in Whitespace /\ word # <<>> THEN <<word>> ELSE <<>>)
       \o split(Tail(s), IF Head(s) \in Whitespace THEN <<>> ELSE Append(word, Head(s)))

\* filter_modules with the apex names looked up in the string and not in the
\* list of its words.
filter_modules_unsplit(mods, target_build_apps) ==
  IF target_build_apps # None /\ target_build_apps[1] # <<>>
  THEN SelectSeq(mods, LAMBDA m :
         \E i \in 0..(Len(target_build_apps[1]) - Len(m.apex)) :
           SubSeq(target_build_apps[1], i + 1, i + Len(m.apex)) = m.apex)
  ELSE mods

\* filter_modules: target_build_apps is None or a string, and None and the
\* empty string are false.
filter_modules(mods, target_build_apps) ==
  IF target_build_apps # None /\ target_build_apps[1] # <<>>
  THEN LET words == split(target_build_apps[1], <<>>)
       IN  SelectSeq(mods, LAMBDA m : m.apex \in Range(words))
  ELSE mods
MAINLINE_MODULES ==
  <<
    MainlineModule(str.com_android_adservices,
      <<str.adservices_module_sdk>>,
      Tiramisu,
      ConfigVar(str.ANDROID, str.module_build_from_source),
      None,
      None),
    MainlineModule(str.com_android_appsearch,
      <<str.appsearch_sdk>>,
      Tiramisu,
      ConfigVar(str.ANDROID, str.module_build_from_source),
      None,
      None),
    MainlineModule(str.com_android_art,
      <<str.art_module_sdk, str.art_module_test_exports, str.art_module_host_exports>>,
      S,
      ConfigVar(str.art_module, str.source_build),
      None,
      None),
    MainlineModule(str.com_android_btservices,
      <<str.btservices_module_sdk>>,
      UpsideDownCake,
      ConfigVar(str.ANDROID, str.module_build_from_source),
      None,
      Some(LATEST)),
    MainlineModule(str.com_android_configinfrastructure,
      <<str.configinfrastructure_sdk>>,
      UpsideDownCake,
      ConfigVar(str.ANDROID, str.module_build_from_source),
      None,
      None),
    MainlineModule(str.com_android_conscrypt,
      <<str.conscrypt_module_sdk, str.conscrypt_module_test_exports, str.conscrypt_module_host_exports>>,
      Q,
      ConfigVar(str.ANDROID, str.module_build_from_source),
      None,
      None),
    MainlineModule(str.com_android_devicelock,
      <<str.devicelock_module_sdk>>,
      UpsideDownCake,
      ConfigVar(str.ANDROID, str.module_build_from_source),
      None,
      Some(LATEST)),
    MainlineModule(str.com_android_healthfitness,
      <<str.healthfitness_module_sdk>>,
      UpsideDownCake,
      ConfigVar(str.ANDROID, str.module_build_from_source),
      None,
      None),
    MainlineModule(str.com_android_ipsec,
      <<str.ipsec_module_sdk>>,
      R,
      ConfigVar(str.ANDROID, str.module_build_from_source),
      Some(ForRBuild(<<SdkLibrary(str.android_net_ipsec_ike, TRUE)>>)),
      None),
    MainlineModule(str.com_android_media,
      <<str.media_module_sdk>>,
      R,
      ConfigVar(str.ANDROID, str.module_build_from_source),
      Some(ForRBuild(<<SdkLibrary(str.framework_media, FALSE)>>)),
      None),
    MainlineModule(str.com_android_mediaprovider,
      <<str.mediaprovider_module_sdk>>,
      R,
      ConfigVar(str.ANDROID, str.module_build_from_source),
      Some(ForRBuild(<<SdkLibrary(str.framework_mediaprovider, FALSE)>>)),
      Some(LATEST)),
    MainlineModule(str.com_android_ondevicepersonalization,
      <<str.ondevicepersonalization_module_sdk>>,
      Tiramisu,
      ConfigVar(str.ANDROID, str.module_build_from_source),
      None,
      None),
    MainlineModule(str.com_android_permission,
      <<str.permission_module_sdk>>,
      R,
      ConfigVar(str.ANDROID, str.module_build_from_source),
      Some(ForRBuild(<<SdkLibrary(str.framework_permission, FALSE)>>)),
      Some(LATEST)),
    MainlineModule(str.com_android_rkpd,
      <<str.rkpd_sdk>>,
      UpsideDownCake,
      ConfigVar(str.ANDROID, str.module_build_from_source),
      None,
      Some(LATEST)),
    MainlineModule(str.com_android_scheduling,
      <<str.scheduling_sdk>>,
      S,
      ConfigVar(str.ANDROID, str.module_build_from_source),
      None,
      None),
    MainlineModule(str.com_android_sdkext,
      <<str.sdkextensions_sdk>>,
      R,
      ConfigVar(str.ANDROID, str.module_build_from_source),
      Some(ForRBuild(<<SdkLibrary(str.framework_sdkextensions, FALSE)>>)),
      None),
    MainlineModule(str.com_android_os_statsd,
      <<str.statsd_module_sdk>>,
      R,
      ConfigVar(str.ANDROID, str.module_build_from_source),
      Some(ForRBuild(<<SdkLibrary(str.framework_statsd, FALSE)>>)),
      None),
    MainlineModule(str.com_android_tethering,
      <<str.tethering_module_sdk>>,
      R,
      ConfigVar(str.ANDROID, str.module_build_from_source),
      Some(ForRBuild(<<SdkLibrary(str.framework_tethering, FALSE)>>)),
      None),
    MainlineModule(str.com_android_uwb,
      <<str.uwb_module_sdk>>,
      Tiramisu,
      ConfigVar(str.ANDROID, str.module_build_from_source),
      None,
      Some(LATEST)),
    MainlineModule(str.com_android_wifi,
      <<str.wifi_module_sdk>>,
      R,
      ConfigVar(str.ANDROID, str.module_build_from_source),
      Some(ForRBuild(<<SdkLibrary(str.framework_wifi, FALSE)>>)),
      Some(LATEST))
  >>

BUNDLED_MAINLINE_MODULES ==
  <<
    BundledMainlineModule(str.com_android_i18n,
      <<str.i18n_module_sdk, str.i18n_module_test_exports, str.i18n_module_host_exports>>),
    BundledMainlineModule(str.com_android_runtime,
      <<str.runtime_module_host_exports, str.runtime_module_sdk>>),
    BundledMainlineModule(str.com_android_tzdata,
      <<str.tzdata_module_test_exports>>)
  >>

PLATFORM_SDKS_FOR_MAINLINE ==
  <<
    BundledMainlineModule(str.platform_mainline,
      <<str.platform_mainline_sdk, str.platform_mainline_test_exports>>)
  >>

\* ---------------------------------------------------------------------------
\* Text files and the two Android.bp transformations
\* ---------------------------------------------------------------------------

\* A line of text without its "\n": a fixed text k with the strings args it
\* is formatted with.  A file is the sequence of its lines and whether its last
\* line ends with "\n"; the empty file has no line.
Line(k, args) == [k |-> k, args |-> args]

TextFile(lines, nl) == [lines |-> lines, nl |-> nl]

\* SoongConfigVarTransformation.PREFER_LINE
PREFER_LINE == Line("    prefer: false,", <<>>)

\* module_type + " {"
ModuleHeaderLine(module_type) == Line(" {", <<module_type>>)

\* "}"
ModuleEndLine == Line("}", <<>>)

\* ""
EmptyLine == Line("", <<>>)

\* line.startswith("//")
IsCommentLine(line) ==
  line.k \in {"// ", "// Soong config variable module type added by ."}

\* [a-z0-9_]
IsIdentifierChar(c) ==
  \/ c \in 97..122
  \/ c \in 48..57
  \/ c = 95

\* re.match("([a-z0-9_]+) +{$", line)
IsModuleHeader(line) ==
  /\ line.k = " {"
  /\ line.args[1] # <<>>
  /\ \A i \in DOMAIN line.args[1] : IsIdentifierChar(line.args[1][i])

\* What iterating over the file yields, each line after rstrip("\n").
ReadLines(file) == file.lines

\* file.seek(0); file.truncate(); file.write("\n".join(chunks) + "\n"), where
\* each chunk is given as the lines of its text split at "\n".
WriteChunks(chunks) ==
  TextFile(IF chunks = <<>> THEN <<EmptyLine>> ELSE Flatten(chunks), TRUE)

\* The number of lines the first loop keeps as header_lines.
RECURSIVE HeaderCount(_, _)
HeaderCount(lines, i) ==
  IF i > Len(lines) THEN Len(lines)
  ELSE IF ~IsCommentLine(lines[i]) THEN i - 1
  ELSE HeaderCount(lines, i + 1)

\* The replacement text with its inner prefer: false indented like PREFER_LINE.
SoongConfigFragment_unindented(configVar) ==
  << Line("    // Do not prefer prebuilt if the Soong config variable  in namespace  is true.",
          <<configVar.name, configVar.namespace>>),
     Line("    prefer: true,", <<>>),
     Line("    soong_config_variables: {", <<>>),
     Line("        : {", <<configVar.name>>),
     PREFER_LINE,
     Line("        },", <<>>),
     Line("    },", <<>>) >>

\* The text that replaces PREFER_LINE in SoongConfigBoilerplateInserter.
SoongConfigFragment(configVar) ==
  << Line("    // Do not prefer prebuilt if the Soong config variable  in namespace  is true.",
          <<configVar.name, configVar.namespace>>),
     Line("    prefer: true,", <<>>),
     Line("    soong_config_variables: {", <<>>),
     Line("        : {", <<configVar.name>>),
     Line("            prefer: false,", <<>>),
     Line("        },", <<>>),
     Line("    },", <<>>) >>

\* SoongConfigBoilerplateInserter.config_module_type
config_module_type(self, module_type) == self.configModuleTypePrefix \o module_type

\* The loop over the contents of one module, from line j: the lines are
\* collected until "}" or the end of the file, and every PREFER_LINE is
\* replaced, recorded and prefixes the module type.
RECURSIVE ModuleLoop(_, _, _, _, _, _)
ModuleLoop(self, lines, j, module_type, module_content, config_module_types) ==
  IF j > Len(lines)
  THEN [next |-> j, module_type |-> module_type, module_content |-> module_content,
        config_module_types |-> config_module_types]
  ELSE IF lines[j] = ModuleEndLine
  THEN [next |-> j + 1, module_type |-> module_type, module_content |-> module_content,
        config_module_types |-> config_module_types]
  ELSE IF lines[j] # PREFER_LINE
  THEN ModuleLoop(self, lines, j + 1, module_type,
                  Append(module_content, <<lines[j]>>), config_module_types)
  ELSE ModuleLoop(self, lines, j + 1, config_module_type(self, module_type),
                  Append(module_content, SoongConfigFragment(self.configVar)),
                  config_module_types \cup {module_type})

\* The loop over the lines after the header, from line i.
RECURSIVE ContentLoop(_, _, _, _, _)
ContentLoop(self, lines, i, content_lines, config_module_types) ==
  IF i > Len(lines)
  THEN [content_lines |-> content_lines, config_module_types |-> config_module_types]
  ELSE IF ~IsModuleHeader(lines[i])
  THEN ContentLoop(self, lines, i + 1, Append(content_lines, <<lines[i]>>),
                   config_module_types)
  ELSE LET m == ModuleLoop(self, lines, i + 1, lines[i].args[1], <<>>,
                           config_module_types)
       IN  ContentLoop(self, lines, m.next,
                       content_lines \o <<<<ModuleHeaderLine(m.module_type)>>>>
                                     \o m.module_content
                                     \o <<<<ModuleEndLine>>>>,
                       m.config_module_types)

\* The soong_config_module_type definition added for a module type; the text
\* ends with "\n", so its last line is empty.
SoongConfigModuleType(self, producer, module_type) ==
  << Line("// Soong config variable module type added by .", <<producer.script>>),
     ModuleHeaderLine(str.soong_config_module_type),
     Line("    name: ,", <<self.configModuleTypePrefix \o module_type>>),
     Line("    module_type: ,", <<module_type>>),
     Line("    config_namespace: ,", <<self.configVar.namespace>>),
     Line("    bool_variables: [],", <<self.configVar.name>>),
     Line("    properties: [prefer],", <<>>),
     ModuleEndLine,
     EmptyLine >>

\* The first loop of SoongConfigBoilerplateInserter: the leading comment lines
\* are the header; the line that ends the loop has been read from the file.
HeaderLoop(lines) ==
  LET n == HeaderCount(lines, 1)
  IN  [header_lines |-> [i \in 1..n |-> <<lines[i]>>], next |-> n + 2]

\* SoongConfigBoilerplateInserter._apply_transformation
SoongConfigBoilerplateInserter_apply(self, producer, file) ==
  LET lines == ReadLines(file)
      h == HeaderLoop(lines)
      c == ContentLoop(self, lines, h.next, <<>>, {})
      types == sorted(c.config_module_types)
      header_lines ==
        h.header_lines \o <<<<EmptyLine>>>>
          \o [i \in 1..Len(types) |-> SoongConfigModuleType(self, producer, types[i])]
  IN  WriteChunks(header_lines \o c.content_lines)

\* The text that replaces PREFER_LINE in UseSourceConfigVarTransformation.
UseSourceConfigVarFragment(configVar) ==
  << Line("    // Do not prefer prebuilt if the Soong config variable  in namespace  is true.",
          <<configVar.name, configVar.namespace>>),
     Line("    use_source_config_var: {", <<>>),
     Line("        config_namespace: ,", <<configVar.namespace>>),
     Line("        var_name: ,", <<configVar.name>>),
     Line("    },", <<>>) >>

\* UseSourceConfigVarTransformation._apply_transformation replacing only the
\* first PREFER_LINE of the file.
UseSourceConfigVarTransformation_apply_first(self, producer, file) ==
  LET lines == ReadLines(file)
  IN  WriteChunks([i \in 1..Len(lines) |->
                     IF lines[i] # PREFER_LINE \/ \E j \in 1..(i - 1) : lines[j] = PREFER_LINE
                     THEN <<lines[i]>>
                     ELSE UseSourceConfigVarFragment(self.configVar)])

\* UseSourceConfigVarTransformation._apply_transformation
UseSourceConfigVarTransformation_apply(self, producer, file) ==
  LET lines == ReadLines(file)
  IN  WriteChunks([i \in 1..Len(lines) |->
                     IF lines[i] # PREFER_LINE
                     THEN <<lines[i]>>
                     ELSE UseSourceConfigVarFragment(self.configVar)])

\* FileTransformation.apply, dispatched on the class of the transformation.
apply(self, producer, file) ==
  IF self.type = "SoongConfigBoilerplateInserter"
  THEN SoongConfigBoilerplateInserter_apply(self, producer, file)
  ELSE UseSourceConfigVarTransformation_apply(self, producer, file)

\* ---------------------------------------------------------------------------
\* Paths and files
\* ---------------------------------------------------------------------------

\* A path is the sequence of its components; os.path.join appends a component.
join(path, name) == Append(path, name)

\* os.path.basename
basename(path) == path[Len(path)]

SDK_VERSION == str.current

\* sdk_snapshot_zip_file
sdk_snapshot_zip_file(snapshots_dir, sdk_name) ==
  join(snapshots_dir, sdk_name \o str.dash \o SDK_VERSION \o str.dot_zip)

\* sdk_snapshot_api_diff_file
sdk_snapshot_api_diff_file(snapshots_dir, sdk_name) ==
  join(snapshots_dir, sdk_name \o str.dash \o SDK_VERSION \o str.dash_api_diff_txt)

\* sdk_snapshot_gantry_metadata_json_file
sdk_snapshot_gantry_metadata_json_file(snapshots_dir, sdk_name) ==
  join(snapshots_dir, sdk_name \o str.dash \o SDK_VERSION \o str.dash_gantry_metadata_json)

\* SnapshotBuilder.mainline_sdks_dir, relative to OUT_DIR.
builder_mainline_sdks_dir == <<str.soong_mainline_sdks>>

\* r_snapshot_dir of build_snapshots_for_build_r
r_snapshot_dir == join(builder_mainline_sdks_dir, str.for_R_build)

\* SdkDistProducer.mainline_sdks_dir and bundled_mainline_sdks_dir, relative to
\* DIST_DIR.
mainline_sdks_dir == <<str.mainline_sdks>>
bundled_mainline_sdks_dir == <<str.bundled_mainline_sdks>>

\* A file of OUT_DIR or DIST_DIR: its path and, for a snapshot zip, the
\* content of its Android.bp entry (None: the file has no such entry) and the
\* time of that entry when the script has replaced it (None: as it was built).
File(path, bp) == [path |-> path, bp |-> bp, time |-> None]

\* Writing a file replaces the file of the same path.
WriteFile(dir, file) == {f \in dir : f.path # file.path} \cup {file}

Exists(dir, path) == \E f \in dir : f.path = path

FileAt(dir, path) == CHOOSE f \in dir : f.path = path

\* apply_transformations on the extracted Android.bp: each transformation of
\* the list is applied to the result of the one before.
RECURSIVE apply_transformations(_, _, _)
apply_transformations(producer, file, transformation_list) ==
  IF transformation_list = <<>> THEN file
  ELSE apply_transformations(producer, apply(Head(transformation_list), producer, file),
                             Tail(transformation_list))

\* ---------------------------------------------------------------------------
\* The run of SdkDistProducer.produce_dist
\* ---------------------------------------------------------------------------

VARIABLES
  modules,         \* produce_dist: the modules argument
  build_releases,  \* produce_dist: the build_releases argument
  built_bp,        \* the Android.bp that the Soong build puts into a snapshot
  ordered,         \* produce_dist: the build releases grouped by soong_env
  index,           \* produce_dist: the position of the loop in ordered
  pc,              \* where the run is: start, loop, creator, done, failed
  tasks,           \* the steps that the running creator has still to do
  created,         \* the creator calls made so far: build release and modules
  snapshots,       \* the builds made so far: build release and modules
  out,             \* the snapshot files in OUT_DIR
  dist,            \* the files in DIST_DIR
  error,           \* the exception that ended the run
  exited,          \* the external process that exited with a failure status in
                   \* the last step
  tmp_dirs,        \* the temporary directories of dist_sdk_snapshot_zip that exist
  log,             \* the steps made for the snapshots: built, extracted, ...
  wall_clock,      \* the times that the clock may show when a file is written
  file,            \* transformation of one file: the file
  original,        \* transformation of one file: the file at the start
  before,          \* transformation of one file: the file before the last apply
  applied,         \* transformation of one file: the transformations applied
  call             \* the last call of a function of the script and its result

vars == <<modules, build_releases, built_bp, ordered, index, pc, tasks, created,
          snapshots, out, dist, error, exited, tmp_dirs, log, wall_clock, file,
          original, before, applied, call>>

runVars == <<modules, build_releases, built_bp, ordered, index, pc, tasks, created,
             snapshots, out, dist, error, exited, tmp_dirs, log, wall_clock>>
textVars == <<file, original, before, applied>>

\* The producer: script is the path of the script.
Producer == [script |-> str.Android_bp]

\* The soong_env keys of the dict grouped_by_env, in insertion order.
RECURSIVE GroupKeys(_, _)
GroupKeys(releases, keys) ==
  IF releases = <<>> THEN keys
  ELSE IF \E i \in DOMAIN keys : keys[i] = Head(releases).soong_env
  THEN GroupKeys(Tail(releases), keys)
  ELSE GroupKeys(Tail(releases), Append(keys, Head(releases).soong_env))

\* produce_dist without the grouping: the build releases in the given order.
GroupByEnv_ungrouped(releases) == releases

\* produce_dist: ordered, the groups of grouped_by_env one after the other.
GroupByEnv(releases) ==
  LET keys == GroupKeys(releases, <<>>)
  IN  Flatten([k \in DOMAIN keys |->
                 SelectSeq(releases, LAMBDA b : b.soong_env = keys[k])])

\* A step of a creator.
Task(op, build_release, mods, module, sdk, sdk_dist_dir, snapshots_dir) ==
  [op |-> op, build_release |-> build_release, modules |-> mods, module |-> module,
   sdk |-> sdk, sdk_dist_dir |-> sdk_dist_dir, snapshots_dir |-> snapshots_dir]

\* The iterations of the loops over module and module.sdks of
\* populate_unbundled_dist and populate_bundled_dist.
PopulateTasks(op, build_release, mods, sdk_dist_dir, snapshots_dir) ==
  Flatten([i \in DOMAIN mods |->
             [j \in DOMAIN mods[i].sdks |->
                Task(op, build_release, <<>>, Some(mods[i]), mods[i].sdks[j],
                     sdk_dist_dir, snapshots_dir)]])

\* populate_unbundled_dist without the SDK_VERSION directory.
populate_unbundled_dist_unversioned(build_release, mods, snapshots_dir) ==
  PopulateTasks("populate_unbundled_dist", build_release, mods,
                join(mainline_sdks_dir, build_release.sub_dir), snapshots_dir)

\* populate_unbundled_dist
populate_unbundled_dist(build_release, mods, snapshots_dir) ==
  PopulateTasks("populate_unbundled_dist", build_release, mods,
                join(join(mainline_sdks_dir, build_release.sub_dir), SDK_VERSION),
                snapshots_dir)

\* populate_bundled_dist
populate_bundled_dist(build_release, mods, snapshots_dir) ==
  PopulateTasks("populate_bundled_dist", build_release, mods,
                bundled_mainline_sdks_dir, snapshots_dir)

\* product_dist_for_build_r without the filter on for_r_build.
product_dist_for_build_r_unfiltered(build_release, mods) ==
  <<Task("build_snapshots_for_build_r", build_release, mods, None, str.empty,
         <<>>, r_snapshot_dir)>>
  \o populate_unbundled_dist(build_release, mods, r_snapshot_dir)

\* product_dist_for_build_r
product_dist_for_build_r(build_release, mods) ==
  LET for_r == SelectSeq(mods, LAMBDA m : m.for_r_build # None)
  IN  <<Task("build_snapshots_for_build_r", build_release, for_r, None, str.empty,
             <<>>, r_snapshot_dir)>>
      \o populate_unbundled_dist(build_release, for_r, r_snapshot_dir)

\* produce_unbundled_dist_for_build_release
produce_unbundled_dist_for_build_release(build_release, mods) ==
  LET unbundled == SelectSeq(mods, LAMBDA m : ~is_bundled(m))
  IN  <<Task("build_snapshots", build_release, unbundled, None, str.empty,
             <<>>, builder_mainline_sdks_dir)>>
      \o (IF build_release.generate_gantry_metadata_and_api_diff
          THEN <<Task("build_sdk_scope_targets", build_release, unbundled, None,
                      str.empty, <<>>, builder_mainline_sdks_dir),
                 Task("build_snapshot_gantry_metadata_and_api_diff", build_release,
                      unbundled, None, str.empty, <<>>, builder_mainline_sdks_dir)>>
          ELSE <<>>)
      \o populate_unbundled_dist(build_release, unbundled, builder_mainline_sdks_dir)

\* produce_bundled_dist_for_build_release without the selection of the
\* bundled modules.
produce_bundled_dist_for_build_release_unfiltered(build_release, mods) ==
  <<Task("build_snapshots", build_release, mods, None, str.empty,
         <<>>, builder_mainline_sdks_dir)>>
  \o populate_bundled_dist(build_release, mods, builder_mainline_sdks_dir)

\* produce_bundled_dist_for_build_release
produce_bundled_dist_for_build_release(build_release, mods) ==
  LET bundled == SelectSeq(mods, LAMBDA m : is_bundled(m))
  IN  IF bundled # <<>>
      THEN <<Task("build_snapshots", build_release, bundled, None, str.empty,
                  <<>>, builder_mainline_sdks_dir)>>
           \o populate_bundled_dist(build_release, bundled, builder_mainline_sdks_dir)
      ELSE <<>>

\* build_release.creator(build_release, self, filtered_modules): the steps of
\* the creator function of the build release.
creator(build_release, mods) ==
  IF build_release.creator = "create_no_dist_snapshot" THEN <<>>
  ELSE IF build_release.creator = "create_dist_snapshot_for_r"
  THEN product_dist_for_build_r(build_release, mods)
  ELSE IF build_release.creator = "create_sdk_snapshots_in_soong"
  THEN produce_unbundled_dist_for_build_release(build_release, mods)
  ELSE produce_unbundled_dist_for_build_release(build_release, mods)
       \o produce_bundled_dist_for_build_release(build_release, mods)

\* The run ends with an exception.
Fail(e) ==
  /\ pc' = "failed"
  /\ error' = e
  /\ tasks' = <<>>

\* The step is done; the run goes on with the next step of the creator.
TaskDone ==
  /\ tasks' = Tail(tasks)
  /\ UNCHANGED <<pc, error>>

\* produce_dist up to its loop: the build releases are grouped by soong_env.
ProduceDistStart ==
  /\ pc = "start"
  /\ ordered' = GroupByEnv(build_releases)
  /\ index' = 1
  /\ pc' = "loop"
  /\ UNCHANGED <<wall_clock, modules, build_releases, built_bp>>
  /\ UNCHANGED <<tasks, created, snapshots, out, dist, error>>
  /\ UNCHANGED <<textVars, call>>
  /\ exited' = "none"
  /\ UNCHANGED <<tmp_dirs, log>>

\* The iteration without the test of filtered_modules: the creator is called
\* also with no module.
ProduceDistLoop_unchecked ==
  /\ pc = "loop"
  /\ index <= Len(ordered)
  /\ LET build_release == ordered[index]
         filtered_modules ==
           SelectSeq(modules, LAMBDA m : is_required_for(m, build_release))
     IN  /\ created' = Append(created, [build_release |-> build_release,
                                        modules |-> filtered_modules])
         /\ tasks' = creator(build_release, filtered_modules)
         /\ pc' = "creator"
         /\ UNCHANGED index
  /\ UNCHANGED <<wall_clock, modules, build_releases, built_bp>>
  /\ UNCHANGED <<ordered, snapshots, out, dist, error>>
  /\ UNCHANGED <<file, original, before, applied, call>>
  /\ exited' = "none"
  /\ UNCHANGED <<tmp_dirs, log>>

\* One iteration of the loop of produce_dist, up to the call of the creator.
ProduceDistLoop ==
  /\ pc = "loop"
  /\ index <= Len(ordered)
  /\ LET build_release == ordered[index]
         filtered_modules ==
           SelectSeq(modules, LAMBDA m : is_required_for(m, build_release))
     IN  IF filtered_modules # <<>>
         THEN /\ created' = Append(created, [build_release |-> build_release,
                                             modules |-> filtered_modules])
              /\ tasks' = creator(build_release, filtered_modules)
              /\ pc' = "creator"
              /\ UNCHANGED index
         ELSE /\ index' = index + 1
              /\ UNCHANGED <<created, tasks, pc>>
  /\ UNCHANGED <<wall_clock, modules, build_releases, built_bp>>
  /\ UNCHANGED <<ordered, snapshots, out, dist, error>>
  /\ UNCHANGED <<textVars, call>>
  /\ exited' = "none"
  /\ UNCHANGED <<tmp_dirs, log>>

\* The creator returns.
CreatorReturn ==
  /\ pc = "creator"
  /\ tasks = <<>>
  /\ pc' = "loop"
  /\ index' = index + 1
  /\ UNCHANGED <<wall_clock, modules, build_releases, built_bp>>
  /\ UNCHANGED <<ordered, tasks, created, snapshots, out, dist, error>>
  /\ UNCHANGED <<textVars, call>>
  /\ exited' = "none"
  /\ UNCHANGED <<tmp_dirs, log>>

\* produce_dist returns.
ProduceDistReturn ==
  /\ pc = "loop"
  /\ index > Len(ordered)
  /\ pc' = "done"
  /\ UNCHANGED <<wall_clock, modules, build_releases, built_bp>>
  /\ UNCHANGED <<ordered, index, tasks, created, snapshots, out, dist, error>>
  /\ UNCHANGED <<textVars, call>>
  /\ exited' = "none"
  /\ UNCHANGED <<tmp_dirs, log>>

\* A step made for snapshots: the state reached, the build release, the apex
\* names of the modules, the sdk ("" for a build, which is for all of them)
\* and the time the clock showed (None where no file gets the time).
Event(state, build_release, apexes, sdk) ==
  [state |-> state, build_release |-> build_release.name, modules |-> apexes, sdk |-> sdk,
   time |-> None]

\* The apex names of the modules.
Apexes(mods) == {mods[i].apex : i \in DOMAIN mods}

\* The snapshot zips that the Soong build writes for the sdks of the modules.
BuiltSnapshots(mods) ==
  {File(sdk_snapshot_zip_file(builder_mainline_sdks_dir, mods[i].sdks[j]), Some(built_bp)) :
     <<i, j>> \in {p \in (DOMAIN mods) \X (1..3) : p[2] \in DOMAIN mods[p[1]].sdks}}

RECURSIVE WriteFiles(_, _)
WriteFiles(dir, files) ==
  IF files = {} THEN dir
  ELSE LET f == CHOOSE f \in files : TRUE
       IN  WriteFiles(WriteFile(dir, f), files \ {f})

\* SnapshotBuilder.build_snapshots: the Soong build either writes all the zips
\* or exits with a failure status, which SubprocessRunner.run raises.
build_snapshots ==
  /\ pc = "creator"
  /\ tasks # <<>>
  /\ Head(tasks).op = "build_snapshots"
  /\ snapshots' = Append(snapshots, [build_release |-> Head(tasks).build_release,
                                     modules |-> Head(tasks).modules])
  /\ \/ /\ out' = WriteFiles(out, BuiltSnapshots(Head(tasks).modules))
        /\ log' = Append(log, Event("BUILT", Head(tasks).build_release,
                                    Apexes(Head(tasks).modules), str.empty))
        /\ TaskDone
        /\ exited' = "none"
     \/ /\ Fail("CalledProcessError")
        /\ exited' = "soong_ui.bash --make-mode"
        /\ UNCHANGED <<out, log>>
  /\ UNCHANGED <<wall_clock, modules, build_releases, built_bp>>
  /\ UNCHANGED <<ordered, index, created, dist>>
  /\ UNCHANGED <<textVars, call, tmp_dirs>>

\* The zips that build_snapshots_for_build_r makes in for-R-build, one for each
\* module and named after its first sdk; their Android.bp is in sdk_library.
RSnapshots(mods) ==
  {File(sdk_snapshot_zip_file(r_snapshot_dir, mods[i].sdks[1]), None) : i \in DOMAIN mods}

\* SnapshotBuilder.build_snapshots_for_build_r
build_snapshots_for_build_r ==
  /\ pc = "creator"
  /\ tasks # <<>>
  /\ Head(tasks).op = "build_snapshots_for_build_r"
  /\ snapshots' = Append(snapshots, [build_release |-> Head(tasks).build_release,
                                     modules |-> Head(tasks).modules])
  /\ \/ /\ out' = WriteFiles(
                    {f \in WriteFiles(out, BuiltSnapshots(Head(tasks).modules)) :
                       ~(Len(f.path) > Len(r_snapshot_dir)
                         /\ SubSeq(f.path, 1, Len(r_snapshot_dir)) = r_snapshot_dir)},
                    RSnapshots(Head(tasks).modules))
        /\ log' = Append(log, Event("BUILT", Head(tasks).build_release,
                                    Apexes(Head(tasks).modules), str.empty))
        /\ TaskDone
        /\ exited' = "none"
     \/ /\ Fail("CalledProcessError")
        /\ exited' = "soong_ui.bash --make-mode"
        /\ UNCHANGED <<out, log>>
  /\ UNCHANGED <<wall_clock, modules, build_releases, built_bp>>
  /\ UNCHANGED <<ordered, index, created, dist>>
  /\ UNCHANGED <<textVars, call, tmp_dirs>>

\* The sdk names of the modules, in the order of the loops over them.
SdkNames(mods) == Flatten([i \in DOMAIN mods |-> mods[i].sdks])

\* SnapshotBuilder.build_sdk_scope_targets: sdk_type_from_name raises for the
\* first sdk name it does not know; the Soong build of the targets may fail.
build_sdk_scope_targets ==
  /\ pc = "creator"
  /\ tasks # <<>>
  /\ Head(tasks).op = "build_sdk_scope_targets"
  /\ LET names == SdkNames(Head(tasks).modules)
     IN  IF \E i \in DOMAIN names : sdk_type_from_name(names[i]).raised
         THEN /\ Fail("Exception")
              /\ exited' = "none"
         ELSE \/ /\ TaskDone
                 /\ exited' = "none"
              \/ /\ Fail("CalledProcessError")
                 /\ exited' = "soong_ui.bash --make-mode"
  /\ UNCHANGED <<wall_clock, modules, build_releases, built_bp>>
  /\ UNCHANGED <<ordered, index, created, snapshots, out, dist>>
  /\ UNCHANGED <<textVars, call, tmp_dirs, log>>

\* What the child processes of build_snapshot_gantry_metadata_and_api_diff do.
\* get_module_extension_version and appendDiffToFile call subprocess.run
\* without check=True, so a failure status raises nothing. soong_ui.bash
\* --dumpvar-mode that fails has either printed no number, and int() raises
\* ValueError, or has printed one; diff that exits with 2 has its output
\* written to the api diff file like one that exits with 0 or 1. diff is run
\* for the sdks that provide APIs.
GantryProcesses(apis) ==
  {[exited |-> "none", error |-> "none"],
   [exited |-> "soong_ui.bash --dumpvar-mode", error |-> "ValueError"],
   [exited |-> "soong_ui.bash --dumpvar-mode", error |-> "none"]}
  \cup (IF apis # {} THEN {[exited |-> "diff", error |-> "none"]} ELSE {})

\* SnapshotBuilder.build_snapshot_gantry_metadata_and_api_diff: the metadata
\* and api diff files of the sdks that provide APIs are written to OUT_DIR, or
\* a ValueError is raised (the extension versions are read from the build).
build_snapshot_gantry_metadata_and_api_diff ==
  /\ pc = "creator"
  /\ tasks # <<>>
  /\ Head(tasks).op = "build_snapshot_gantry_metadata_and_api_diff"
  /\ LET names == SdkNames(Head(tasks).modules)
         apis == {names[i] : i \in {j \in DOMAIN names :
                                      sdk_type_from_name(names[j]).value[1].providesApis}}
     IN  \E p \in GantryProcesses(apis) :
           /\ exited' = p.exited
           /\ IF p.error # "none"
              THEN /\ Fail(p.error)
                   /\ UNCHANGED out
              ELSE \/ /\ out' = WriteFiles(out,
                                  {File(sdk_snapshot_api_diff_file(
                                          Head(tasks).snapshots_dir, n), None) : n \in apis}
                                  \cup
                                  {File(sdk_snapshot_gantry_metadata_json_file(
                                          Head(tasks).snapshots_dir, n), None) : n \in apis})
                      /\ TaskDone
                   \/ /\ apis # {}
                      /\ Fail("ValueError")
                      /\ UNCHANGED out
  /\ UNCHANGED <<wall_clock, modules, build_releases, built_bp>>
  /\ UNCHANGED <<ordered, index, created, snapshots, dist>>
  /\ UNCHANGED <<textVars, call, tmp_dirs, log>>
\* ---------------------------------------------------------------------------
\* Timestamps and the temporary directory of dist_sdk_snapshot_zip
\* ---------------------------------------------------------------------------

\* The time of a file: seconds since the epoch and nanoseconds, as st_mtime_ns
\* has it. The nanoseconds of the model stay below 2^18.
Timestamp(sec, nsec) == [sec |-> sec, nsec |-> nsec]

\* default_zip_time: 2008-01-01 00:00:00 UTC
default_zip_time == Timestamp(1199145600, 0)

\* os.path.getmtime: the time as a float. Between 2^30 and 2^31 seconds the
\* floats are 2^-22 seconds apart; the float is sec + k * 2^-22, with k the
\* multiple that is nearest to the nanoseconds (k = nsec * 2^22 / 10^9, rounded;
\* 2^22 / 10^9 = 8192 / 1953125).
getmtime(time) ==
  [sec |-> time.sec, k |-> (time.nsec * 8192 + 976562) \div 1953125]

\* os.utime with a float: the nanoseconds are the fraction times 10^9, rounded
\* down.
utime(float) == Timestamp(float.sec, (float.k * 1953125) \div 8192)

\* A temporary directory: the Android.bp extracted into it (None: not there),
\* the time of that file and how many transformations have been applied.
TmpDir(bp, mtime, n) == [bp |-> bp, mtime |-> mtime, applied |-> n]

\* The with statement left without removing the temporary directory.
TemporaryDirectory__exit__kept(dirs) == dirs

\* tempfile.TemporaryDirectory.__exit__: the directory made last is removed.
TemporaryDirectory__exit__(dirs) == SubSeq(dirs, 1, Len(dirs) - 1)

\* copy_zip_and_replace without set_default_timestamp.
set_default_timestamp_skipped(dir) == dir

\* set_default_timestamp for the paths of the transformations.
set_default_timestamp(dir) == [dir EXCEPT !.mtime = Some(default_zip_time)]

\* dist_sdk_snapshot_gantry_metadata_and_api_diff for an sdk that provides
\* APIs: the api diff file and the metadata file are copied to the dist.
DistGantryFiles(t) ==
  LET sdk_dist_module_subdir == join(t.sdk_dist_dir, t.module[1].apex)
  IN  {File(join(join(sdk_dist_module_subdir, str.sdk),
                 basename(sdk_snapshot_api_diff_file(t.snapshots_dir, t.sdk))), None),
       File(join(sdk_dist_module_subdir, str.gantry_metadata_json), None)}

\* The dist after the call of dist_sdk_snapshot_gantry_metadata_and_api_diff
\* that populate_unbundled_dist makes for a build release with Gantry metadata.
DistAfterGantry(t, sdk_type) ==
  IF /\ t.op = "populate_unbundled_dist"
     /\ t.build_release.generate_gantry_metadata_and_api_diff
     /\ sdk_type.providesApis
  THEN WriteFiles(dist, DistGantryFiles(t))
  ELSE dist

\* populate_dist_snapshot: where the snapshot zip of the sdk goes in the dist.
DestSdkZip(t, sdk_type) ==
  LET sdk_dist_subdir == join(join(t.sdk_dist_dir, t.module[1].apex), sdk_type.name)
      sdk_path == sdk_snapshot_zip_file(t.snapshots_dir, t.sdk)
  IN  join(sdk_dist_subdir, basename(sdk_path))

\* dist_sdk_snapshot_zip without the call of apply_transformations.
ZipSteps_untransformed(t) ==
  << [t EXCEPT !.op = "extract_matching_files_from_zip"],
     [t EXCEPT !.op = "copy_zip_and_replace"] >>

\* dist_sdk_snapshot_zip: the calls made in the with statement.
ZipSteps(t) ==
  << [t EXCEPT !.op = "extract_matching_files_from_zip"],
     [t EXCEPT !.op = "apply_transformations"],
     [t EXCEPT !.op = "copy_zip_and_replace"] >>

\* shutil.copy with the Android.bp entry of the copy given the default time
\* of the rewritten zips.
shutil_copy_rewritten(dir, src, dst) ==
  WriteFile(dir, [src EXCEPT !.path = dst, !.time = Some(default_zip_time)])

\* shutil.copy(src, dst): the file at dst has the content of src.
shutil_copy(dir, src, dst) == WriteFile(dir, [src EXCEPT !.path = dst])

\* One iteration of the loop of populate_unbundled_dist or populate_bundled_dist:
\* populate_dist_snapshot and dist_sdk_snapshot_zip up to its with statement.
\* sdk_type_from_name raises for an unknown sdk name; without transformations
\* the zip is copied, and shutil.copy raises FileNotFoundError if it is
\* missing; with transformations the temporary directory is made.
Populate(op) ==
  /\ pc = "creator"
  /\ tasks # <<>>
  /\ Head(tasks).op = op
  /\ LET t == Head(tasks)
         type == sdk_type_from_name(t.sdk)
     IN  IF type.raised
         THEN /\ Fail("Exception")
              /\ UNCHANGED <<dist, tmp_dirs, log>>
         ELSE LET sdk_type == type.value[1]
                  src_sdk_zip == sdk_snapshot_zip_file(t.snapshots_dir, t.sdk)
                  dest_sdk_zip == DestSdkZip(t, sdk_type)
                  transformation_list ==
                    transformations(t.module[1], t.build_release, sdk_type)
                  dist1 == DistAfterGantry(t, sdk_type)
              IN  IF transformation_list # <<>>
                  THEN /\ dist' = dist1
                       /\ tmp_dirs' = Append(tmp_dirs, TmpDir(None, None, 0))
                       /\ tasks' = ZipSteps(t) \o Tail(tasks)
                       /\ UNCHANGED <<pc, error, log>>
                  ELSE IF ~Exists(out, src_sdk_zip)
                  THEN /\ Fail("FileNotFoundError")
                       /\ dist' = dist1
                       /\ UNCHANGED <<tmp_dirs, log>>
                  ELSE /\ dist' = shutil_copy(dist1, FileAt(out, src_sdk_zip), dest_sdk_zip)
                       /\ log' = Append(log, Event("REPACKAGED", t.build_release,
                                                   {t.module[1].apex}, t.sdk))
                       /\ TaskDone
                       /\ UNCHANGED tmp_dirs
  /\ UNCHANGED <<wall_clock, modules, build_releases, built_bp>>
  /\ UNCHANGED <<ordered, index, created, snapshots, out>>
  /\ exited' = "none"
  /\ UNCHANGED <<textVars, call>>

populate_unbundled_dist_step == Populate("populate_unbundled_dist")

populate_bundled_dist_step == Populate("populate_bundled_dist")

\* An exception ends the with statement of dist_sdk_snapshot_zip and the run.
FailInWith(e) ==
  /\ Fail(e)
  /\ tmp_dirs' = TemporaryDirectory__exit__(tmp_dirs)

\* extract_matching_files_from_zip: the Android.bp of the zip, if it has one,
\* is written to the temporary directory at the time the clock shows. A
\* missing zip raises FileNotFoundError; writing may fail with OSError. The
\* event in the log has the time of the extraction.
extract_matching_files_from_zip ==
  /\ pc = "creator"
  /\ tasks # <<>>
  /\ Head(tasks).op = "extract_matching_files_from_zip"
  /\ LET t == Head(tasks)
         src_sdk_zip == sdk_snapshot_zip_file(t.snapshots_dir, t.sdk)
     IN  IF ~Exists(out, src_sdk_zip)
         THEN /\ FailInWith("FileNotFoundError")
              /\ UNCHANGED log
         ELSE \/ /\ \E now \in wall_clock :
                      /\ tmp_dirs' =
                           [tmp_dirs EXCEPT ![Len(tmp_dirs)] =
                              IF FileAt(out, src_sdk_zip).bp = None
                              THEN TmpDir(None, None, 0)
                              ELSE TmpDir(FileAt(out, src_sdk_zip).bp, Some(now), 0)]
                      /\ log' = Append(log, [Event("EXTRACTED", t.build_release,
                                                   {t.module[1].apex}, t.sdk)
                                             EXCEPT !.time = Some(now)])
                 /\ TaskDone
              \/ /\ FailInWith("OSError")
                 /\ UNCHANGED log
  /\ UNCHANGED <<wall_clock, modules, build_releases, built_bp>>
  /\ UNCHANGED <<ordered, index, created, snapshots, out, dist>>
  /\ exited' = "none"
  /\ UNCHANGED <<textVars, call>>

\* One iteration of the loop of apply_transformations: the time of the file is
\* read with os.path.getmtime, the transformation rewrites the file, and
\* os.utime sets the time read. getmtime raises FileNotFoundError for a file
\* that was not extracted; writing may fail with OSError.
apply_transformations_step ==
  /\ pc = "creator"
  /\ tasks # <<>>
  /\ Head(tasks).op = "apply_transformations"
  /\ LET t == Head(tasks)
         tmp_dir == tmp_dirs[Len(tmp_dirs)]
         transformation_list ==
           transformations(t.module[1], t.build_release,
                           sdk_type_from_name(t.sdk).value[1])
         transformation == transformation_list[tmp_dir.applied + 1]
     IN  IF tmp_dir.bp = None
         THEN /\ FailInWith("FileNotFoundError")
              /\ UNCHANGED log
         ELSE \/ /\ LET modified == getmtime(tmp_dir.mtime[1])
                    IN  tmp_dirs' =
                          [tmp_dirs EXCEPT ![Len(tmp_dirs)] =
                             TmpDir(Some(apply(transformation, Producer, tmp_dir.bp[1])),
                                    Some(utime(modified)), tmp_dir.applied + 1)]
                 /\ IF tmp_dir.applied + 1 = Len(transformation_list)
                    THEN /\ log' = Append(log, Event("TRANSFORMED", t.build_release,
                                                     {t.module[1].apex}, t.sdk))
                         /\ TaskDone
                    ELSE UNCHANGED <<log, tasks, pc, error>>
              \/ /\ FailInWith("OSError")
                 /\ UNCHANGED log
  /\ UNCHANGED <<wall_clock, modules, build_releases, built_bp>>
  /\ UNCHANGED <<ordered, index, created, snapshots, out, dist>>
  /\ exited' = "none"
  /\ UNCHANGED <<textVars, call>>

\* copy_zip_and_replace and the end of the with statement: the files of the
\* temporary directory get the default time, the zip subprocess writes the zip
\* of the dist with them in place of the entries of the source zip, or exits
\* with a failure status, and the temporary directory is removed.
copy_zip_and_replace ==
  /\ pc = "creator"
  /\ tasks # <<>>
  /\ Head(tasks).op = "copy_zip_and_replace"
  /\ LET t == Head(tasks)
         src_dir == set_default_timestamp(tmp_dirs[Len(tmp_dirs)])
         dest_zip_path == DestSdkZip(t, sdk_type_from_name(t.sdk).value[1])
     IN  \/ /\ dist' = WriteFile(dist, [File(dest_zip_path, src_dir.bp) EXCEPT
                                          !.time = src_dir.mtime])
            /\ log' = Append(log, Event("REPACKAGED", t.build_release,
                                        {t.module[1].apex}, t.sdk))
            /\ tmp_dirs' = TemporaryDirectory__exit__(tmp_dirs)
            /\ TaskDone
            /\ exited' = "none"
         \/ /\ FailInWith("CalledProcessError")
            /\ exited' = "zip"
            /\ UNCHANGED <<dist, log>>
  /\ UNCHANGED <<wall_clock, modules, build_releases, built_bp>>
  /\ UNCHANGED <<ordered, index, created, snapshots, out>>
  /\ UNCHANGED <<textVars, call>>

\* create_snapshot_gantry_metadata_and_api_diff with the version -1 added to
\* last_finalized_version_set like any other.
create_snapshot_gantry_metadata_and_api_diff_unfinalized(versions) ==
  LET last_finalized_version_set == {versions[i] : i \in DOMAIN versions}
  IN  IF Cardinality(last_finalized_version_set) = 0
      THEN [result |-> Returned([last_finalized_version |-> -1]),
            written |-> {"api-diff.txt", "gantry-metadata.json"}]
      ELSE IF Cardinality(last_finalized_version_set) = 1
      THEN [result |-> Returned([last_finalized_version |->
                                   CHOOSE v \in last_finalized_version_set : TRUE]),
            written |-> {"api-diff.txt", "gantry-metadata.json"}]
      ELSE [result |-> Raised("ValueError"), written |-> {"api-diff.txt"}]

\* create_snapshot_gantry_metadata_and_api_diff for an sdk, given the extension
\* versions that read_extension_version reads, two for each scope of each java
\* sdk library: the gantry_metadata_dict or the ValueError, and which of the
\* two files of the sdk have been written. The api diff file is opened for
\* writing before the versions are read, the metadata file after them.
create_snapshot_gantry_metadata_and_api_diff(versions) ==
  LET last_finalized_version_set == {versions[i] : i \in DOMAIN versions} \ {-1}
  IN  IF Cardinality(last_finalized_version_set) = 0
      THEN [result |-> Returned([last_finalized_version |-> -1]),
            written |-> {"api-diff.txt", "gantry-metadata.json"}]
      ELSE IF Cardinality(last_finalized_version_set) = 1
      THEN [result |-> Returned([last_finalized_version |->
                                   CHOOSE v \in last_finalized_version_set : TRUE]),
            written |-> {"api-diff.txt", "gantry-metadata.json"}]
      ELSE [result |-> Raised("ValueError"), written |-> {"api-diff.txt"}]
\* ---------------------------------------------------------------------------
\* The inputs
\* ---------------------------------------------------------------------------

\* The largest number of modules given to produce_dist.
MaxModules == 2

\* The largest number of lines of a file given to a transformation.
MaxLines == 4

\* The largest number of transformations applied to a file one after another.
MaxApplied == 2

\* The largest number of BuildRelease constructions: those of the script and
\* one more.
MaxReleases == 8

\* The largest number of scopes of the java sdk libraries of an sdk; for
\* each scope two extension versions are read.
MaxScopes == 2

\* The times that the clock may show when a file is written: one that
\* os.path.getmtime gives exactly, and one between two floats.
WallClock == {Timestamp(1700000000, 0), Timestamp(1700000000, 200)}

\* The test's MAINLINE_MODULES_BY_APEX
AllModules == MAINLINE_MODULES \o BUNDLED_MAINLINE_MODULES \o PLATFORM_SDKS_FOR_MAINLINE

MAINLINE_MODULES_BY_APEX(apex) == CHOOSE m \in Range(AllModules) : m.apex = apex

\* str.replace(old, new)
RECURSIVE Replace(_, _, _)
Replace(s, old, new) ==
  IF s = <<>> THEN <<>>
  ELSE LET found == StartsWith(s, old)
       IN  (IF found THEN new ELSE <<Head(s)>>)
           \o Replace(SubSeq(s, IF found THEN Len(old) + 1 ELSE 2, Len(s)), old, new)

\* aosp_to_google_name
aosp_to_google_name(name) == Replace(name, str.com_android_, str.com_google_android_)

\* dist_generate_sdk_supported_modules_file with the modules looked up in
\* MAINLINE_MODULES by their apex name.
dist_generate_sdk_supported_modules_file_by_apex(mods) ==
  Flatten([i \in DOMAIN mods |->
             IF \E j \in DOMAIN MAINLINE_MODULES : MAINLINE_MODULES[j].apex = mods[i].apex
             THEN aosp_to_google_name(mods[i].apex) \o <<10>>
             ELSE <<>>])

\* dist_generate_sdk_supported_modules_file: the content of sdk-modules.txt,
\* to which a line is written for each module that is equal to an entry of
\* MAINLINE_MODULES.
dist_generate_sdk_supported_modules_file(mods) ==
  Flatten([i \in DOMAIN mods |->
             IF \E j \in DOMAIN MAINLINE_MODULES : MAINLINE_MODULES[j] = mods[i]
             THEN aosp_to_google_name(mods[i].apex) \o <<10>>
             ELSE <<>>])

\* aosp_to_google: dataclasses.replace(module, apex=new_apex)
aosp_to_google(module) == [module EXCEPT !.apex = aosp_to_google_name(module.apex)]

\* A transformation of a class outside the script, as the one for which the
\* test of additional_transformations replaces a module.
TestTransformation ==
  [type |-> "TestTransformation", path |-> str.Android_bp,
   configVar |-> ConfigVar(str.empty, str.empty), configModuleTypePrefix |-> str.empty]

\* A module whose only sdk name has lost its suffix: "conscrypt-module".
MisnamedModule ==
  [aosp_to_google(MAINLINE_MODULES_BY_APEX(str.com_android_conscrypt)) EXCEPT
     !.sdks = <<SubSeq(str.conscrypt_module_sdk, 1, Len(str.conscrypt_module_sdk) - 4)>>]

\* The modules that the runs of produce_dist are given, in the order of the
\* tables of the script.
RunModules ==
  << MAINLINE_MODULES_BY_APEX(str.com_android_art),
     MAINLINE_MODULES_BY_APEX(str.com_android_conscrypt),
     MAINLINE_MODULES_BY_APEX(str.com_android_ipsec),
     MAINLINE_MODULES_BY_APEX(str.com_android_runtime),
     MAINLINE_MODULES_BY_APEX(str.platform_mainline),
     MisnamedModule >>

\* The sequence of the elements of seq whose index is in indices, in order.
RECURSIVE Pick(_, _, _)
Pick(seq, indices, i) ==
  IF i > Len(seq) THEN <<>>
  ELSE IF i \in indices THEN <<seq[i]>> \o Pick(seq, indices, i + 1)
  ELSE Pick(seq, indices, i + 1)

\* The sub-lists of a list, as filter_modules and main select them.
SubLists(seq) == {Pick(seq, indices, 1) : indices \in SUBSET DOMAIN seq}

\* A header comment line and a property line of an Android.bp.
CommentLine == Line("// ", <<>>)
PropertyLine == Line("    name: ,", <<str.sdk>>)

\* The Android.bp of a snapshot with one unversioned module, and the empty
\* Android.bp of the snapshots of the tests.
SampleBp ==
  TextFile(<<CommentLine, EmptyLine, ModuleHeaderLine(test_str.foo_module), PropertyLine,
             PREFER_LINE, ModuleEndLine>>, TRUE)
EmptyBp == TextFile(<<>>, FALSE)

\* The lines that the files given to a transformation are made of.
InputLines ==
  {CommentLine, EmptyLine, PREFER_LINE, ModuleHeaderLine(test_str.foo_module),
   ModuleHeaderLine(test_str.bar), ModuleEndLine, PropertyLine}

\* The files of at most n lines: every text is the content of exactly one.
RECURSIVE LineSeqs(_)
LineSeqs(n) ==
  IF n = 0 THEN {<<>>}
  ELSE LET shorter == LineSeqs(n - 1)
       IN  shorter \cup {Append(s, l) : s \in {x \in shorter : Len(x) = n - 1},
                                        l \in InputLines}

InputFiles ==
  {TextFile(lines, nl) : lines \in LineSeqs(MaxLines), nl \in BOOLEAN} \
  {f \in {TextFile(lines, nl) : lines \in LineSeqs(MaxLines), nl \in BOOLEAN} :
     \/ f.lines = <<>> /\ f.nl
     \/ f.lines # <<>> /\ ~f.nl /\ f.lines[Len(f.lines)] = EmptyLine}

\* The transformations that the files are given to.
InputTransformations ==
  {SoongConfigBoilerplateInserter(str.Android_bp, ConfigVar(test_str.ns, test_str.var), test_str.pre_us),
   UseSourceConfigVarTransformation(str.Android_bp, ConfigVar(test_str.ns, test_str.var))}

\* A build release made after LATEST with a preferHandling that is none of the
\* members of PreferHandling.
UnknownPreferHandlingRelease ==
  LET all == BuildRelease(ALL_BUILD_RELEASES,
               [name |-> str.next \o str.dash \o str.next,
                creator |-> "create_sdk_snapshots_in_soong",
                sub_dir |-> None, soong_env |-> None, preferHandling |-> "UNKNOWN",
                include_flagged_apis |-> FALSE,
                generate_gantry_metadata_and_api_diff |-> FALSE])
  IN  all[Len(all)]

\* A second transformation of that class, for another file of the snapshot.
OtherTestTransformation == [TestTransformation EXCEPT !.path = str.gantry_metadata_json]

\* The modules, build releases, sdk types and sdk names of the single calls:
\* the modules of the tables, modules with one and with two additional
\* transformations, and modules that were optional up to S only.
CallModules ==
  Range(AllModules)
    \cup {MisnamedModule}
    \cup {[m EXCEPT !.additional_transformations = <<TestTransformation>>] :
            m \in {MAINLINE_MODULES_BY_APEX(str.com_android_ipsec),
                   MAINLINE_MODULES_BY_APEX(str.com_android_wifi),
                   MAINLINE_MODULES_BY_APEX(str.com_android_runtime)}}
    \cup {[m EXCEPT !.additional_transformations =
                      <<OtherTestTransformation, TestTransformation>>] :
            m \in {MAINLINE_MODULES_BY_APEX(str.com_android_ipsec),
                   MAINLINE_MODULES_BY_APEX(str.com_android_art)}}
    \cup {[m EXCEPT !.last_optional_release = Some(S)] :
            m \in {MAINLINE_MODULES_BY_APEX(str.com_android_ipsec),
                   MAINLINE_MODULES_BY_APEX(str.com_android_wifi)}}
CallBuildReleases == Range(ALL_BUILD_RELEASES) \cup {UnknownPreferHandlingRelease}
CallSdkTypes == {Sdk, HostExports, TestExports}
CallSdkNames ==
  UNION {Range(m.sdks) : m \in CallModules}
    \cup {str.sdk, str.host_exports, str.test_exports, str.empty,
          str.dash_sdk \o str.dash, str.art_module}

\* The module lists given to filter_modules: the lists of up to MaxModules
\* of three modules of the tables, in any order and with repetitions.
FilterModuleLists ==
  UNION {[1..n -> {MAINLINE_MODULES_BY_APEX(str.com_android_art),
                   MAINLINE_MODULES_BY_APEX(str.com_android_conscrypt),
                   MAINLINE_MODULES_BY_APEX(str.com_android_ipsec)}] : n \in 0..MaxModules}

\* The module of the test that is in none of the tables:
\* MainlineModule(apex="com.android.adbd", sdks=[], first_release="").
AdbdModule == MainlineModule(test_str.com_android_adbd, <<>>, str.empty, ConfigVar(str.ANDROID, str.module_build_from_source), None, None)

\* The module lists given to dist_generate_sdk_supported_modules_file: the
\* lists of up to MaxModules modules, in any order and with repetitions, of
\* three entries of MAINLINE_MODULES, a bundled module, a platform sdk, copies
\* of these with another list of transformations, and the module of the test
\* that is in no table.
SupportedModuleLists ==
  UNION {[1..n -> {AdbdModule} \cup
                  UNION {{m, [m EXCEPT !.additional_transformations = <<TestTransformation>>]} :
                           m \in {x \in Range(AllModules) :
                                    x.apex \in {str.com_android_art, str.com_android_conscrypt,
                                                str.com_android_ipsec, str.com_android_runtime,
                                                str.platform_mainline}}}] :
           n \in 0..MaxModules}

\* The values of TARGET_BUILD_APPS given to filter_modules: not set, empty,
\* whitespace only, one apex name, apex names separated by a space, by several
\* spaces or by a tab and a newline, an apex name twice, and names that are a
\* part of an apex name or have one as a part.
TargetBuildApps ==
  { None,
    Some(str.empty),
    Some(<<32, 32>>),
    Some(str.com_android_art),
    Some(str.com_android_art \o <<32>> \o str.com_android_ipsec),
    Some(<<32>> \o str.com_android_ipsec \o <<32, 32>> \o str.com_android_art \o <<10>>),
    Some(str.com_android_conscrypt \o <<9>> \o str.com_android_ipsec \o <<10>>
         \o str.com_android_art),
    Some(str.com_android_art \o <<32>> \o str.com_android_art),
    Some(str.com_android_),
    Some(str.com_android_art \o str.dash_sdk \o <<32>> \o str.com_android_ipsec),
    Some(str.com_android_art \o <<44>> \o str.com_android_ipsec) }
\* ---------------------------------------------------------------------------
\* The transformation of one file, and the single calls
\* ---------------------------------------------------------------------------

NoFile == TextFile(<<>>, FALSE)

NoCall ==
  [op |-> "none", module |-> None, build_release |-> None, sdk_type |-> None,
   name |-> str.empty, result |-> Returned(FALSE)]

\* apply_transformations with one transformation of class
\* SoongConfigBoilerplateInserter on the file.
SoongConfigBoilerplateInserter_step ==
  /\ Len(applied) < MaxApplied
  /\ \E t \in {x \in InputTransformations : x.type = "SoongConfigBoilerplateInserter"} :
       /\ before' = file
       /\ file' = apply(t, Producer, file)
       /\ applied' = Append(applied, t)
  /\ UNCHANGED <<original, runVars, call>>

\* apply_transformations with one transformation of class
\* UseSourceConfigVarTransformation on the file.
UseSourceConfigVarTransformation_step ==
  /\ Len(applied) < MaxApplied
  /\ \E t \in {x \in InputTransformations : x.type = "UseSourceConfigVarTransformation"} :
       /\ before' = file
       /\ file' = apply(t, Producer, file)
       /\ applied' = Append(applied, t)
  /\ UNCHANGED <<original, runVars, call>>

\* A call of module.is_required_for(build_release).
Call_is_required_for ==
  /\ call = NoCall
  /\ \E m \in CallModules, b \in CallBuildReleases :
       call' = [op |-> "is_required_for", module |-> Some(m), build_release |-> Some(b),
                sdk_type |-> None, name |-> str.empty,
                result |-> Returned(is_required_for(m, b))]
  /\ UNCHANGED <<runVars, textVars>>

\* A call of module.transformations(build_release, sdk_type).
Call_transformations ==
  /\ call = NoCall
  /\ \E m \in CallModules, b \in CallBuildReleases, t \in CallSdkTypes :
       call' = [op |-> "transformations", module |-> Some(m), build_release |-> Some(b),
                sdk_type |-> Some(t), name |-> str.empty,
                result |-> Returned(transformations(m, b, t))]
  /\ UNCHANGED <<runVars, textVars>>

\* A call of sdk_type_from_name(name).
Call_sdk_type_from_name ==
  /\ call = NoCall
  /\ \E n \in CallSdkNames :
       call' = [op |-> "sdk_type_from_name", module |-> None, build_release |-> None,
                sdk_type |-> None, name |-> n, result |-> sdk_type_from_name(n)]
  /\ UNCHANGED <<runVars, textVars>>

\* The call of filter_modules(modules, target_build_apps), which main makes
\* before any other of the calls.
Call_filter_modules ==
  /\ call = NoCall
  /\ \E ms \in FilterModuleLists, a \in TargetBuildApps :
       call' = [op |-> "filter_modules", module |-> None, build_release |-> None,
                sdk_type |-> None, name |-> str.empty, modules |-> ms,
                target_build_apps |-> a, result |-> Returned(filter_modules(ms, a))]
  /\ UNCHANGED <<runVars, textVars>>

\* The call of dist_generate_sdk_supported_modules_file(modules), which main
\* makes before produce_dist; the result is the content of sdk-modules.txt.
Call_dist_generate_sdk_supported_modules_file ==
  /\ call = NoCall
  /\ \E ms \in SupportedModuleLists :
       call' = [op |-> "dist_generate_sdk_supported_modules_file", module |-> None,
                build_release |-> None, sdk_type |-> None, name |-> str.empty,
                modules |-> ms,
                result |-> Returned(dist_generate_sdk_supported_modules_file(ms))]
  /\ UNCHANGED <<runVars, textVars>>

\* ---------------------------------------------------------------------------
\* The specifications
\* ---------------------------------------------------------------------------

RunIdle ==
  /\ modules = <<>>
  /\ build_releases = <<>>
  /\ built_bp = EmptyBp
  /\ ordered = <<>>
  /\ index = 0
  /\ pc = "idle"
  /\ tasks = <<>>
  /\ created = <<>>
  /\ snapshots = <<>>
  /\ out = {}
  /\ dist = {}
  /\ error = "none"
  /\ exited = "none"
  /\ tmp_dirs = <<>>
  /\ log = <<>>
  /\ wall_clock = {}

TextIdle ==
  /\ file = NoFile
  /\ original = NoFile
  /\ before = NoFile
  /\ applied = <<>>

\* A run of produce_dist: main gives it a sub-list of the module tables and a
\* sub-list of ALL_BUILD_RELEASES that is not empty; OUT_DIR and DIST_DIR are
\* empty, and the snapshots that are built have the Android.bp SampleBp.
Init ==
  /\ modules \in {l \in SubLists(RunModules) : Len(l) <= MaxModules}
  /\ build_releases \in SubLists(ALL_BUILD_RELEASES) \ {<<>>}
  /\ built_bp = SampleBp
  /\ ordered = <<>>
  /\ index = 0
  /\ pc = "start"
  /\ tasks = <<>>
  /\ created = <<>>
  /\ snapshots = <<>>
  /\ out = {}
  /\ dist = {}
  /\ error = "none"
  /\ exited = "none"
  /\ tmp_dirs = <<>>
  /\ log = <<>>
  /\ wall_clock = {Timestamp(1700000000, 200)}
  /\ TextIdle
  /\ call = NoCall

Next ==
  \/ ProduceDistStart
  \/ ProduceDistLoop
  \/ CreatorReturn
  \/ ProduceDistReturn
  \/ build_snapshots
  \/ build_snapshots_for_build_r
  \/ build_sdk_scope_targets
  \/ build_snapshot_gantry_metadata_and_api_diff
  \/ populate_unbundled_dist_step
  \/ populate_bundled_dist_step
  \/ extract_matching_files_from_zip
  \/ apply_transformations_step
  \/ copy_zip_and_replace

Spec == Init /\ [][Next]_vars

\* Runs of produce_dist for one module and one or two build releases, with a
\* clock that may show any of the times of WallClock.
InitZip ==
  /\ modules \in {l \in SubLists(RunModules) : Len(l) = 1}
  /\ build_releases \in {l \in SubLists(ALL_BUILD_RELEASES) : Len(l) \in {1, 2}}
  /\ built_bp \in {SampleBp, EmptyBp}
  /\ ordered = <<>>
  /\ index = 0
  /\ pc = "start"
  /\ tasks = <<>>
  /\ created = <<>>
  /\ snapshots = <<>>
  /\ out = {}
  /\ dist = {}
  /\ error = "none"
  /\ exited = "none"
  /\ tmp_dirs = <<>>
  /\ log = <<>>
  /\ wall_clock = WallClock
  /\ TextIdle
  /\ call = NoCall

SpecZip == InitZip /\ [][Next]_vars

\* The transformations applied to one file.
InitText ==
  /\ file \in InputFiles
  /\ original = file
  /\ before = file
  /\ applied = <<>>
  /\ RunIdle
  /\ call = NoCall

NextText ==
  \/ SoongConfigBoilerplateInserter_step
  \/ UseSourceConfigVarTransformation_step

SpecText == InitText /\ [][NextText]_vars

\* Single calls of the functions of the script: the functions keep no state,
\* so that each call is made from the state in which none has been made.
InitCalls ==
  /\ call = NoCall
  /\ RunIdle
  /\ TextIdle

NextCalls ==
  \/ Call_is_required_for
  \/ Call_transformations
  \/ Call_sdk_type_from_name
  \/ Call_filter_modules

SpecCalls == InitCalls /\ [][NextCalls]_vars

\* A construction BuildRelease(...): the result is the registry
\* ALL_BUILD_RELEASES after it, which is empty before the first construction.
\* The arguments are those of the construction that the script makes at this
\* position, or those of its first or of its last construction once more.
Call_BuildRelease ==
  /\ call.op \in {"none", "BuildRelease"}
  /\ LET all == IF call = NoCall THEN <<>> ELSE call.result.value[1]
     IN  /\ Len(all) < MaxReleases
         /\ \E n \in {1, Len(BuildReleaseCalls),
                       IF Len(all) < Len(BuildReleaseCalls) THEN Len(all) + 1 ELSE 1} :
              call' = [op |-> "BuildRelease", module |-> None, build_release |-> None,
                       sdk_type |-> None, name |-> BuildReleaseCalls[n].name,
                       result |-> Returned(BuildRelease(all, BuildReleaseCalls[n]))]
  /\ UNCHANGED <<runVars, textVars>>

\* A call of create_snapshot_gantry_metadata_and_api_diff for an sdk whose
\* java sdk libraries have up to MaxScopes scopes in all, with the extension
\* versions -1 (not finalized), 4 and 5 in the files that are read.
Call_create_snapshot_gantry_metadata_and_api_diff ==
  /\ call = NoCall
  /\ \E versions \in UNION {[1..(2 * n) -> {-1, 4, 5}] : n \in 0..MaxScopes} :
       call' = [op |-> "create_snapshot_gantry_metadata_and_api_diff", module |-> None,
                build_release |-> None, sdk_type |-> None, name |-> str.empty,
                versions |-> versions,
                written |-> create_snapshot_gantry_metadata_and_api_diff(versions).written,
                result |-> create_snapshot_gantry_metadata_and_api_diff(versions).result]
  /\ UNCHANGED <<runVars, textVars>>

\* The constructions of build releases when the script is loaded, and the
\* single calls of functions of a run.
NextFunctions ==
  \/ Call_BuildRelease
  \/ Call_dist_generate_sdk_supported_modules_file
  \/ Call_create_snapshot_gantry_metadata_and_api_diff

SpecFunctions == InitCalls /\ [][NextFunctions]_vars
\* ---------------------------------------------------------------------------
\* Properties
\* ---------------------------------------------------------------------------

\* C1: for every module m and build release b, m.is_required_for(b) is true
\* if and only if m.first_release.ordinal <= b.ordinal.
C1_IsRequiredFor ==
  call.op = "is_required_for" =>
    (call.result.value[1] <=>
       call.module[1].first_release.ordinal <= call.build_release[1].ordinal)

\* A module of the tables asked about the build release it is first needed in.
C1_Witness ==
  /\ call.op = "is_required_for"
  /\ call.module[1] \in Range(AllModules)
  /\ call.build_release[1] \in Range(ALL_BUILD_RELEASES)
  /\ call.module[1].first_release.ordinal = call.build_release[1].ordinal
  /\ call.module[1].first_release.ordinal > 0
  /\ call.result = Returned(TRUE)

\* C2: for every bundled module, build release and sdk type, transformations
\* returns the empty list, whatever the preferHandling of the build release is
\* and also when additional_transformations is set and the release is newer
\* than R.
C2_BundledNoTransformations ==
  (call.op = "transformations" /\ is_bundled(call.module[1])) =>
    call.result = Returned(<<>>)

\* A bundled module with additional_transformations asked for S, which needs
\* the Soong config boilerplate and is newer than R.
C2_Witness ==
  /\ call.op = "transformations"
  /\ is_bundled(call.module[1])
  /\ call.module[1].additional_transformations # <<>>
  /\ call.build_release[1] = S
  /\ call.build_release[1].ordinal > R.ordinal
  /\ call.result = Returned(<<>>)

\* The indices of the modules given to produce_dist that are required for b.
RequiredIndices(b) ==
  {i \in DOMAIN modules : modules[i].first_release.ordinal <= b.ordinal}

\* C3: produce_dist calls the creator of a build release exactly once if at
\* least one module is required for it and never otherwise, and gives it
\* exactly the required modules in their input order.
C3_CreatorCalls ==
  /\ \A k \in DOMAIN created :
       /\ \E i \in DOMAIN build_releases : build_releases[i] = created[k].build_release
       /\ RequiredIndices(created[k].build_release) # {}
       /\ created[k].modules = Pick(modules, RequiredIndices(created[k].build_release), 1)
  /\ \A k, l \in DOMAIN created :
       created[k].build_release = created[l].build_release => k = l
  /\ pc = "done" =>
       \A i \in DOMAIN build_releases :
         RequiredIndices(build_releases[i]) # {} =>
           \E k \in DOMAIN created : created[k].build_release = build_releases[i]

\* ipsec, first needed in R, requested for Q, R, S and LATEST: the creators of
\* R, LATEST and S have been called and the one of Q has not.
C3_Witness ==
  /\ pc = "done"
  /\ build_releases = <<Q, R, S, LATEST>>
  /\ \E i \in DOMAIN modules : modules[i].apex = str.com_android_ipsec
  /\ \A i \in DOMAIN modules : modules[i].first_release = R
  /\ [k \in DOMAIN created |-> created[k].build_release] = <<R, LATEST, S>>

\* The first position of a build release with the soong_env env in the input.
FirstWithEnv(env) ==
  CHOOSE i \in DOMAIN build_releases :
    /\ build_releases[i].soong_env = env
    /\ \A j \in 1..(i - 1) : build_releases[j].soong_env # env

\* The position of the build release b in a list.
PositionIn(list, b) == CHOOSE i \in DOMAIN list : list[i] = b

\* The place of a build of the example in the order R, latest, S.
ExampleRank(b) == IF b = R THEN 1 ELSE IF b = LATEST THEN 2 ELSE 3

\* C4: the order in which produce_dist processes the build releases is a
\* permutation of the input in which the releases of equal soong_env are
\* consecutive, the groups are in the order of their first member in the input
\* and the input order is kept within a group; for Q, R, S, LATEST the builds
\* run in the order R, latest, S.
C4_GroupedOrder ==
  pc # "start" =>
    /\ Len(ordered) = Len(build_releases)
    /\ Range(ordered) = Range(build_releases)
    /\ \A i, j, k \in DOMAIN ordered :
         (i < j /\ j < k /\ ordered[i].soong_env = ordered[k].soong_env) =>
           ordered[j].soong_env = ordered[i].soong_env
    /\ \A i, j \in DOMAIN ordered :
         (i < j /\ ordered[i].soong_env # ordered[j].soong_env) =>
           FirstWithEnv(ordered[i].soong_env) < FirstWithEnv(ordered[j].soong_env)
    /\ \A i, j \in DOMAIN ordered :
         (i < j /\ ordered[i].soong_env = ordered[j].soong_env) =>
           PositionIn(build_releases, ordered[i]) < PositionIn(build_releases, ordered[j])
    /\ \A k, l \in DOMAIN created :
         k < l => PositionIn(ordered, created[k].build_release)
                    < PositionIn(ordered, created[l].build_release)
    /\ \A k, l \in DOMAIN snapshots :
         k < l => PositionIn(ordered, snapshots[k].build_release)
                    <= PositionIn(ordered, snapshots[l].build_release)
    /\ build_releases = <<Q, R, S, LATEST>> =>
         /\ ordered = <<Q, R, LATEST, S>>
         /\ \A k \in DOMAIN snapshots : snapshots[k].build_release \in {R, LATEST, S}
         /\ \A k, l \in DOMAIN snapshots :
              k < l => ExampleRank(snapshots[k].build_release)
                         <= ExampleRank(snapshots[l].build_release)

\* The run for Q, R, S and LATEST is done and has built R, latest and S, one
\* after the other.
C4_Witness ==
  /\ pc = "done"
  /\ build_releases = <<Q, R, S, LATEST>>
  /\ [k \in DOMAIN snapshots |-> snapshots[k].build_release.name]
       = <<str.R, str.latest, str.S>>

\* C5: the SoongConfigBoilerplateInserter applied to a file without a
\* PREFER_LINE leaves the content of the file as it was.
C5_NoSentinelUnchanged ==
  (/\ Len(applied) = 1
   /\ applied[1].type = "SoongConfigBoilerplateInserter"
   /\ \A i \in DOMAIN original.lines : original.lines[i] # PREFER_LINE) =>
    file = original

\* C6: for both transformations and every file, the second application to the
\* output of the first leaves the file unchanged.
C6_SecondPassNoOp ==
  (Len(applied) = 2 /\ applied[1] = applied[2]) => file = before

\* The SoongConfigBoilerplateInserter applied twice to a file of which the
\* first application has rewritten a module.
C6_Witness ==
  /\ Len(applied) = 2
  /\ applied[1] = applied[2]
  /\ applied[1].type = "SoongConfigBoilerplateInserter"
  /\ \E i \in DOMAIN before.lines :
       before.lines[i] = ModuleHeaderLine(test_str.pre_us \o test_str.foo_module)
  /\ before # original
  /\ file = before

\* lines has the lines of part one after the other.
ContainsLines(lines, part) ==
  \E i \in 0..(Len(lines) - Len(part)) : SubSeq(lines, i + 1, i + Len(part)) = part

\* The file has one module, of type foo_module, and one PREFER_LINE, which is
\* in the body of the module.
OneFooModuleWithSentinel(f) ==
  /\ Cardinality({i \in DOMAIN f.lines : f.lines[i].k = " {"}) = 1
  /\ Cardinality({i \in DOMAIN f.lines : f.lines[i] = PREFER_LINE}) = 1
  /\ \E h, p \in DOMAIN f.lines :
       /\ h < p
       /\ f.lines[h] = ModuleHeaderLine(test_str.foo_module)
       /\ f.lines[p] = PREFER_LINE
       /\ \A e \in (h + 1)..(p - 1) : f.lines[e] # ModuleEndLine

\* C7: the SoongConfigBoilerplateInserter with ConfigVar(ns, var) and prefix
\* pre_ applied to a file with one module of type foo_module whose body has the
\* PREFER_LINE gives (1) a soong_config_module_type named pre_foo_module with
\* module_type foo_module, config_namespace ns and bool_variables [var],
\* (2) the module with the type pre_foo_module, and (3) in place of the
\* PREFER_LINE prefer: true and a soong_config_variables block that sets
\* prefer: false under var.
C7_LegacyScenario ==
  (/\ Len(applied) = 1
   /\ applied[1] = SoongConfigBoilerplateInserter(str.Android_bp,
                                                  ConfigVar(test_str.ns, test_str.var), test_str.pre_us)
   /\ OneFooModuleWithSentinel(original)) =>
    /\ ContainsLines(file.lines,
         << Line(" {", <<str.soong_config_module_type>>),
            Line("    name: ,", <<test_str.pre_us \o test_str.foo_module>>),
            Line("    module_type: ,", <<test_str.foo_module>>),
            Line("    config_namespace: ,", <<test_str.ns>>),
            Line("    bool_variables: [],", <<test_str.var>>),
            Line("    properties: [prefer],", <<>>),
            Line("}", <<>>) >>)
    /\ \E i \in DOMAIN file.lines : file.lines[i] = Line(" {", <<test_str.pre_us \o test_str.foo_module>>)
    /\ \A i \in DOMAIN file.lines : file.lines[i] # Line(" {", <<test_str.foo_module>>)
    /\ ContainsLines(file.lines,
         << Line("    prefer: true,", <<>>),
            Line("    soong_config_variables: {", <<>>),
            Line("        : {", <<test_str.var>>),
            Line("            prefer: false,", <<>>),
            Line("        },", <<>>),
            Line("    },", <<>>) >>)
    /\ \A i \in DOMAIN file.lines : file.lines[i] # PREFER_LINE

\* The sub-directory of the dist that the suffix of an sdk name stands for.
KindOf(s) ==
  IF EndsWith(s, str.dash_sdk) THEN str.sdk
  ELSE IF EndsWith(s, str.dash_host_exports) THEN str.host_exports
  ELSE str.test_exports

\* mainline-sdks/for-<b.name>-build/current/<m.apex>/<kind>/<s>-current.zip
ExpectedZipPath(b, m, s) ==
  << str.mainline_sdks, str.for_dash \o b.name \o str.dash_build, str.current, m.apex,
     KindOf(s), s \o str.dash \o str.current \o str.dot_zip >>

\* The build release is handled by one of the creators that build with Soong.
SoongBased(b) ==
  b.creator \in {"create_sdk_snapshots_in_soong", "create_latest_sdk_snapshots"}

\* C8: the snapshot zip of every sdk s of a non-bundled module m for a build
\* release b of the Soong-based creators is written to exactly
\* mainline-sdks/<b.sub_dir>/current/<m.apex>/<kind>/<s>-current.zip, with the
\* sub_dir for-<b.name>-build and the kind of the suffix of s; for the module
\* art and the release S, the dist has these three zips and nothing else.
C8_DistPath ==
  /\ \A f \in dist :
       (f.path[1] = str.mainline_sdks /\ EndsWith(basename(f.path), str.dot_zip)) =>
         \E i \in DOMAIN modules, j \in DOMAIN build_releases :
           /\ ~modules[i].bundled
           /\ \E k \in DOMAIN modules[i].sdks :
                f.path = ExpectedZipPath(build_releases[j], modules[i], modules[i].sdks[k])
  /\ pc = "done" =>
       \A i \in DOMAIN modules, j \in DOMAIN build_releases :
         (/\ ~modules[i].bundled
          /\ SoongBased(build_releases[j])
          /\ modules[i].first_release.ordinal <= build_releases[j].ordinal) =>
           \A k \in DOMAIN modules[i].sdks :
             \E f \in dist :
               f.path = ExpectedZipPath(build_releases[j], modules[i], modules[i].sdks[k])
  /\ (/\ pc = "done"
      /\ build_releases = <<S>>
      /\ [i \in DOMAIN modules |-> modules[i].apex] = <<str.com_android_art>>) =>
       {f.path : f \in dist} =
         { << str.mainline_sdks, str.for_dash \o str.S \o str.dash_build, str.current,
              str.com_android_art, str.sdk,
              str.art_module_sdk \o str.dash \o str.current \o str.dot_zip >>,
           << str.mainline_sdks, str.for_dash \o str.S \o str.dash_build, str.current,
              str.com_android_art, str.host_exports,
              str.art_module_host_exports \o str.dash \o str.current \o str.dot_zip >>,
           << str.mainline_sdks, str.for_dash \o str.S \o str.dash_build, str.current,
              str.com_android_art, str.test_exports,
              str.art_module_test_exports \o str.dash \o str.current \o str.dot_zip >> }

\* The run for the module art and the build release S is done and has put
\* three files into the dist.
C8_Witness ==
  /\ pc = "done"
  /\ build_releases = <<S>>
  /\ [i \in DOMAIN modules |-> modules[i].apex] = <<str.com_android_art>>
  /\ Cardinality(dist) = 3

\* The sdk name ends with none of -sdk, -host-exports and -test-exports.
InvalidSdkName(n) ==
  /\ ~EndsWith(n, str.dash_sdk)
  /\ ~EndsWith(n, str.dash_host_exports)
  /\ ~EndsWith(n, str.dash_test_exports)

\* C9: sdk_type_from_name returns Sdk, HostExports or TestExports for a name
\* that ends with -sdk, -host-exports or -test-exports and raises an error that
\* names the sdk name for every other name; a module with an sdk name of none
\* of the suffixes makes the run fail, and no archive of that sdk is written to
\* the dist.
C9_InvalidSdkNameFailsRun ==
  /\ \A n \in CallSdkNames :
       /\ sdk_type_from_name(n) = Returned(Sdk) <=> EndsWith(n, str.dash_sdk)
       /\ sdk_type_from_name(n) = Returned(HostExports) <=> EndsWith(n, str.dash_host_exports)
       /\ sdk_type_from_name(n) = Returned(TestExports) <=> EndsWith(n, str.dash_test_exports)
       /\ sdk_type_from_name(n) = Raised(n) <=> InvalidSdkName(n)
  /\ \A i \in DOMAIN modules :
       \A k \in DOMAIN modules[i].sdks :
         InvalidSdkName(modules[i].sdks[k]) =>
           /\ pc # "done"
           /\ \A f \in dist :
                ~StartsWith(basename(f.path), modules[i].sdks[k] \o str.dash \o str.current)

\* C10: MainlineModule.transformations fails for a build release whose
\* preferHandling is none of NONE, SOONG_CONFIG and
\* USE_SOURCE_CONFIG_VAR_PROPERTY, instead of returning a list without a prefer
\* transformation.
C10_UnknownPreferHandlingFails ==
  (/\ call.op = "transformations"
   /\ ~is_bundled(call.module[1])
   /\ call.build_release[1].preferHandling \notin PreferHandling) =>
    call.result.raised

\* The transformation rewrites the prefer property.
IsPreferTransformation(t) ==
  t.type \in {"SoongConfigBoilerplateInserter", "UseSourceConfigVarTransformation"}

\* C11: the ConfigVar of the prefer transformation of a non-bundled module is
\* ConfigVar(short_name + "_module", "source_build") whenever the module has a
\* last_optional_release, for every build release, also the ones newer than
\* last_optional_release, and the configVar field of the module otherwise.
C11_PreferConfigVar ==
  (call.op = "transformations" /\ ~is_bundled(call.module[1])) =>
    LET m == call.module[1]
        list == call.result.value[1]
    IN  \A i \in DOMAIN list :
          IsPreferTransformation(list[i]) =>
            list[i].configVar =
              IF m.last_optional_release # None
              THEN [namespace |-> LastComponent(m.apex) \o str.us_module,
                    name |-> str.source_build]
              ELSE m.configVar

\* wifi, optional up to S, asked for a build release newer than S: the prefer
\* transformation has the variable of the module and not ANDROID.
C11_Witness ==
  /\ call.op = "transformations"
  /\ call.module[1].apex = str.com_android_wifi
  /\ call.module[1].last_optional_release = Some(S)
  /\ call.build_release[1].ordinal > S.ordinal
  /\ call.result.value[1] # <<>>
  /\ call.result.value[1][1].configVar.name = str.source_build
  /\ call.result.value[1][1].configVar.namespace # str.ANDROID
  /\ call.module[1].configVar.namespace = str.ANDROID

\* C12: the list of transformations of a non-bundled module has at most one
\* transformation that rewrites prefer; it is the first one, its path is
\* Android.bp and its class follows the preferHandling of the build release:
\* none for NONE (Q, R), a SoongConfigBoilerplateInserter with the prefix
\* short_name + sdk_type.configModuleTypePrefix + "_prebuilt_" for SOONG_CONFIG
\* (S), a UseSourceConfigVarTransformation for USE_SOURCE_CONFIG_VAR_PROPERTY
\* (Tiramisu and later).
C12_OnePreferTransformation ==
  (/\ call.op = "transformations"
   /\ ~is_bundled(call.module[1])
   /\ \A i \in DOMAIN call.module[1].additional_transformations :
        ~IsPreferTransformation(call.module[1].additional_transformations[i])) =>
    LET m == call.module[1]
        b == call.build_release[1]
        t == call.sdk_type[1]
        list == call.result.value[1]
        prefers == {i \in DOMAIN list : IsPreferTransformation(list[i])}
    IN  /\ Cardinality(prefers) <= 1
        /\ \A i \in prefers : i = 1 /\ list[i].path = str.Android_bp
        /\ b.preferHandling = "NONE" => prefers = {}
        /\ b.preferHandling = "SOONG_CONFIG" =>
             /\ prefers = {1}
             /\ list[1].type = "SoongConfigBoilerplateInserter"
             /\ list[1].configModuleTypePrefix =
                  LastComponent(m.apex) \o t.configModuleTypePrefix \o str.us_prebuilt_us
        /\ b.preferHandling = "USE_SOURCE_CONFIG_VAR_PROPERTY" =>
             /\ prefers = {1}
             /\ list[1].type = "UseSourceConfigVarTransformation"
        /\ b \in {Q, R} => b.preferHandling = "NONE"
        /\ b = S => b.preferHandling = "SOONG_CONFIG"
        /\ b \in {Tiramisu, UpsideDownCake, NEXT, LATEST} =>
             b.preferHandling = "USE_SOURCE_CONFIG_VAR_PROPERTY"

\* art asked for S and the host exports: the one transformation is the
\* SoongConfigBoilerplateInserter with the prefix art_host_exports_prebuilt_.
C12_Witness ==
  /\ call.op = "transformations"
  /\ call.module[1] = MAINLINE_MODULES_BY_APEX(str.com_android_art)
  /\ call.build_release[1] = S
  /\ call.sdk_type[1] = HostExports
  /\ Len(call.result.value[1]) = 1
  /\ call.result.value[1][1].type = "SoongConfigBoilerplateInserter"
  /\ call.result.value[1][1].configModuleTypePrefix =
       SubSeq(str.art_module, 1, 3) \o str.us_host_exports \o str.us_prebuilt_us

\* C13: the list of transformations of a non-bundled module with
\* additional_transformations ends with exactly these, in their order and after
\* the prefer transformation, if and only if the build release is newer than R;
\* for Q and R it has none of them.
C13_AdditionalTransformations ==
  (/\ call.op = "transformations"
   /\ ~is_bundled(call.module[1])
   /\ call.module[1].additional_transformations # <<>>) =>
    LET additional == call.module[1].additional_transformations
        b == call.build_release[1]
        list == call.result.value[1]
        n == Len(list) - Len(additional)
    IN  IF b.ordinal > R.ordinal
        THEN /\ n >= 0
             /\ SubSeq(list, n + 1, Len(list)) = additional
             /\ \A i \in 1..n : list[i] \notin Range(additional)
        ELSE /\ b \in {Q, R}
             /\ \A i \in DOMAIN list : list[i] \notin Range(additional)

\* ipsec with two additional transformations asked for Tiramisu: the prefer
\* transformation and then the two, in their order.
C13_Witness ==
  /\ call.op = "transformations"
  /\ call.module[1].apex = str.com_android_ipsec
  /\ call.module[1].additional_transformations =
       <<OtherTestTransformation, TestTransformation>>
  /\ call.build_release[1] = Tiramisu
  /\ Len(call.result.value[1]) = 3
  /\ call.result.value[1][1].type = "UseSourceConfigVarTransformation"
  /\ SubSeq(call.result.value[1], 2, 3) = <<OtherTestTransformation, TestTransformation>>

\* ---------------------------------------------------------------------------
\* Claims about the external processes, the temporary directory and the
\* times of the files
\* ---------------------------------------------------------------------------

\* C14: when an external process started during a run (the Soong build, zip,
\* diff, soong_ui.bash --dumpvar-mode) exits with a failure status, the run
\* aborts at that step: the run has failed, and no later build release is
\* processed and no further dist file is written.
C14_ProcessFailureAborts ==
  [][exited # "none" => (pc = "failed" /\ UNCHANGED <<dist, index>>)]_vars

\* The zip steps of dist_sdk_snapshot_zip.
InWithStatement ==
  /\ pc = "creator"
  /\ tasks # <<>>
  /\ Head(tasks).op \in {"extract_matching_files_from_zip", "apply_transformations",
                         "copy_zip_and_replace"}

\* C15: the temporary directory of dist_sdk_snapshot_zip exists only while
\* the with statement is executed: it is gone when the call has returned and
\* when it has failed in the extraction, in a transformation or in the zip
\* subprocess; there is never more than one temporary directory.
C15_ScratchDirRemoved ==
  /\ Len(tmp_dirs) <= 1
  /\ tmp_dirs # <<>> => InWithStatement
  /\ InWithStatement => Len(tmp_dirs) = 1

\* The zip subprocess has failed after the transformations of an extracted
\* Android.bp, and no temporary directory is left.
C15_Witness ==
  /\ pc = "failed"
  /\ exited = "zip"
  /\ error = "CalledProcessError"
  /\ tmp_dirs = <<>>
  /\ \E i \in DOMAIN log : log[i].state = "TRANSFORMED"

\* C16: a transformation applied by apply_transformations leaves the
\* modification time of the file as it was immediately before that
\* transformation.
C16_TimestampPreserved ==
  [][(/\ tmp_dirs # <<>>
      /\ Len(tmp_dirs') = Len(tmp_dirs)
      /\ tmp_dirs'[Len(tmp_dirs)].applied = tmp_dirs[Len(tmp_dirs)].applied + 1) =>
       tmp_dirs'[Len(tmp_dirs)].mtime = tmp_dirs[Len(tmp_dirs)].mtime]_vars

\* The module, the build release and the transformations of a step of the log
\* that is for one sdk, and the zip of that sdk in the dist.
ModuleOfEvent(e) == CHOOSE m \in Range(modules) : {m.apex} = e.modules

ReleaseOfEvent(e) == CHOOSE b \in Range(build_releases) : b.name = e.build_release

TransformationsOfEvent(e) ==
  transformations(ModuleOfEvent(e), ReleaseOfEvent(e), sdk_type_from_name(e.sdk).value[1])

ArchiveOfEvent(e) ==
  FileAt(dist, ExpectedZipPath(ReleaseOfEvent(e), ModuleOfEvent(e), e.sdk))

\* The steps of the log that wrote a zip with replaced entries to the dist.
Rewritten ==
  {i \in DOMAIN log : /\ log[i].state = "REPACKAGED"
                      /\ TransformationsOfEvent(log[i]) # <<>>}

\* C17: the zip that dist_sdk_snapshot_zip writes with a list of
\* transformations depends on the source zip and the list only, not on the
\* time of the call: the replaced entry has the time 2008-01-01T00:00:00Z and
\* the content that the transformations make of the entry of the source zip,
\* so two calls with the same source zip and the same list write the same
\* entry.
C17_Deterministic ==
  \A i \in Rewritten, j \in Rewritten :
    LET a == ArchiveOfEvent(log[i])
        b == ArchiveOfEvent(log[j])
    IN  /\ a.time = Some(Timestamp(1199145600, 0))
        /\ a.bp = Some(apply_transformations(Producer, built_bp,
                                             TransformationsOfEvent(log[i])))
        /\ TransformationsOfEvent(log[i]) = TransformationsOfEvent(log[j]) =>
             (a.bp = b.bp /\ a.time = b.time)

\* Two zips have been written with the same list of transformations, and their
\* entries were extracted at different times.
C17_Witness ==
  \E i \in Rewritten, j \in Rewritten :
    \E k \in DOMAIN log, l \in DOMAIN log :
      /\ log[k] = [log[i] EXCEPT !.state = "EXTRACTED", !.time = log[k].time]
      /\ log[l] = [log[j] EXCEPT !.state = "EXTRACTED", !.time = log[l].time]
      /\ log[k].time # log[l].time
      /\ TransformationsOfEvent(log[i]) = TransformationsOfEvent(log[j])
      /\ ArchiveOfEvent(log[i]).path # ArchiveOfEvent(log[j]).path

\* The states of the steps of the log for the zip of the sdk of the module of
\* a build release: the builds of the release that the module was part of
\* and the steps for that sdk.
StatesOf(build_release, apex, sdk, n) ==
  LET indices == {i \in 1..n :
                    /\ log[i].build_release = build_release
                    /\ \/ log[i].state = "BUILT" /\ apex \in log[i].modules
                       \/ log[i].modules = {apex} /\ log[i].sdk = sdk}
  IN  [i \in DOMAIN Pick(log, indices, 1) |-> Pick(log, indices, 1)[i].state]

\* The states of the steps of the log for the module and the build release.
StatesOfPair(build_release, apex, n) ==
  LET indices == {i \in 1..n :
                    /\ log[i].build_release = build_release
                    /\ apex \in log[i].modules}
  IN  [i \in DOMAIN Pick(log, indices, 1) |-> Pick(log, indices, 1)[i].state]

\* C18, as claimed: for every module and build release whose snapshot zip is
\* written to the dist, the steps were BUILT, EXTRACTED, TRANSFORMED and
\* REPACKAGED, in this order, none left out and none made twice.
C18_StateMachinePerPair ==
  \A i \in DOMAIN log :
    log[i].state = "REPACKAGED" =>
      \E e \in log[i].modules :
        StatesOfPair(log[i].build_release, e, Len(log)) =
          <<"BUILT", "EXTRACTED", "TRANSFORMED", "REPACKAGED">>

\* C18, amended: for every sdk of a module and build release whose snapshot
\* zip is written to the dist, the steps up to the writing were BUILT,
\* EXTRACTED, TRANSFORMED and REPACKAGED, in this order and each once, when the
\* module has transformations for the build release, and BUILT and REPACKAGED
\* when it has none (the zip is copied as built); the steps are made once for
\* each sdk of the module after the one build.
C18_StateMachinePerSdk ==
  \A i \in DOMAIN log :
    /\ log[i].state = "REPACKAGED" =>
         StatesOf(log[i].build_release, CHOOSE a \in log[i].modules : TRUE, log[i].sdk, Len(log)) =
           IF TransformationsOfEvent(log[i]) # <<>>
           THEN <<"BUILT", "EXTRACTED", "TRANSFORMED", "REPACKAGED">>
           ELSE <<"BUILT", "REPACKAGED">>
    /\ log[i].state = "TRANSFORMED" =>
         StatesOf(log[i].build_release, CHOOSE a \in log[i].modules : TRUE, log[i].sdk, i) =
           <<"BUILT", "EXTRACTED", "TRANSFORMED">>
    /\ log[i].state = "EXTRACTED" =>
         StatesOf(log[i].build_release, CHOOSE a \in log[i].modules : TRUE, log[i].sdk, i) =
           <<"BUILT", "EXTRACTED">>

\* A run is done in which the zip of an sdk has been copied as built for one
\* build release and written with transformed entries for another.
C18_Witness ==
  /\ pc = "done"
  /\ \E i \in Rewritten, j \in DOMAIN log \ Rewritten :
       /\ log[j].state = "REPACKAGED"
       /\ log[j].sdk = log[i].sdk
       /\ log[j].build_release # log[i].build_release

\* The bundled modules of the run.
BundledModules == {m \in Range(modules) : is_bundled(m)}

\* C19: in a run of produce_dist for any list of build releases, the snapshot
\* zips of a bundled module are written for the build release latest only,
\* and only to bundled-mainline-sdks/<apex>/<kind>/, and nothing of a bundled
\* module is written under mainline-sdks; nothing of a module that is not
\* bundled is written under bundled-mainline-sdks.
C19_BundledOnlyLatest ==
  /\ \A f \in dist :
       /\ f.path[1] \in {str.mainline_sdks, str.bundled_mainline_sdks}
       /\ f.path[1] = str.bundled_mainline_sdks =>
            /\ LATEST \in Range(build_releases)
            /\ \E m \in BundledModules, k \in 1..3 :
                 /\ k \in DOMAIN m.sdks
                 /\ f.path = << str.bundled_mainline_sdks, m.apex, KindOf(m.sdks[k]),
                                m.sdks[k] \o str.dash \o str.current \o str.dot_zip >>
       /\ f.path[1] = str.mainline_sdks =>
            \A m \in BundledModules : m.apex \notin Range(f.path)
  /\ \A i \in DOMAIN log :
       (log[i].modules \cap {m.apex : m \in BundledModules} # {}) =>
         log[i].build_release = LATEST.name

\* A run for latest and an earlier build release, with a bundled module and
\* one that is not bundled, is done and has written zips of both.
C19_Witness ==
  /\ pc = "done"
  /\ LATEST \in Range(build_releases)
  /\ \E b \in Range(build_releases) : b.ordinal < LATEST.ordinal
  /\ \E f \in dist : f.path[1] = str.bundled_mainline_sdks
  /\ \E f \in dist : f.path[1] = str.mainline_sdks

\* The whitespace-separated identifiers of s: the parts of s without
\* whitespace that have whitespace or an end of s on both sides.
Identifiers(s) ==
  {SubSeq(s, i, j) : <<i, j>> \in
     {p \in (1..Len(s)) \X (1..Len(s)) :
        /\ p[1] <= p[2]
        /\ \A k \in p[1]..p[2] : s[k] \notin {9, 10, 11, 12, 13, 32}
        /\ p[1] = 1 \/ s[p[1] - 1] \in {9, 10, 11, 12, 13, 32}
        /\ p[2] = Len(s) \/ s[p[2] + 1] \in {9, 10, 11, 12, 13, 32}}}

\* C20: filter_modules(modules, allow) returns the list of modules as it is
\* when allow is None or empty, and otherwise the modules whose apex name is
\* one of the whitespace-separated identifiers of allow, in the order of the
\* list and each as often as the list has it.
C20_FilterModules ==
  call.op = "filter_modules" =>
    /\ ~call.result.raised
    /\ IF call.target_build_apps = None \/ call.target_build_apps = Some(str.empty)
       THEN call.result.value[1] = call.modules
       ELSE /\ call.result.value[1] =
                 SelectSeq(call.modules,
                           LAMBDA m : m.apex \in Identifiers(call.target_build_apps[1]))
            /\ \E indices \in SUBSET DOMAIN call.modules :
                 call.result.value[1] = Pick(call.modules, indices, 1)

\* filter_modules has been called with a list of two modules and a string
\* that names the second and then the first of them, and has returned the
\* two in the order of the list.
C20_Witness ==
  /\ call.op = "filter_modules"
  /\ Len(call.modules) = 2
  /\ call.target_build_apps # None
  /\ Len(split(call.target_build_apps[1], <<>>)) = 2
  /\ call.result.value[1] = call.modules
  /\ call.modules[1].apex = split(call.target_build_apps[1], <<>>)[2]
  /\ call.modules[2].apex = split(call.target_build_apps[1], <<>>)[1]
\* ---------------------------------------------------------------------------
\* Claims about sdk-modules.txt, the build releases and the two
\* transformations of an Android.bp
\* ---------------------------------------------------------------------------

\* The lines of a text: the parts that end with a newline, without it, and
\* the part after the last newline if it is not empty.
RECURSIVE LinesOf(_, _)
LinesOf(text, line) ==
  IF text = <<>> THEN (IF line = <<>> THEN <<>> ELSE <<line>>)
  ELSE (IF Head(text) = 10 THEN <<line>> ELSE <<>>)
       \o LinesOf(Tail(text), IF Head(text) = 10 THEN <<>> ELSE Append(line, Head(text)))

\* C21: dist_generate_sdk_supported_modules_file writes one line for each
\* module of its input that is an entry of MAINLINE_MODULES, in the order of
\* the input: the apex name with com.google.android. in place of com.android.;
\* the other modules (bundled modules, platform sdks, modules of no table) get
\* no line, and the file is empty when no module of the input is an entry.
C21_SdkModulesFile ==
  call.op = "dist_generate_sdk_supported_modules_file" =>
    LET entries == SelectSeq(call.modules,
                             LAMBDA m : \E i \in DOMAIN MAINLINE_MODULES :
                                          MAINLINE_MODULES[i] = m)
        lines == LinesOf(call.result.value[1], <<>>)
    IN  /\ ~call.result.raised
        /\ Len(lines) = Len(entries)
        /\ \A i \in DOMAIN lines :
             /\ StartsWith(entries[i].apex, str.com_android_)
             /\ lines[i] = str.com_google_android_
                             \o SubSeq(entries[i].apex, Len(str.com_android_) + 1,
                                       Len(entries[i].apex))
        /\ call.result.value[1] # <<>> =>
             call.result.value[1][Len(call.result.value[1])] = 10
        /\ entries = <<>> => call.result.value[1] = <<>>
        /\ \A i \in DOMAIN call.modules :
             (is_bundled(call.modules[i]) \/ call.modules[i] = AdbdModule) =>
               \A j \in DOMAIN lines :
                 lines[j] # aosp_to_google_name(call.modules[i].apex)

\* The file has been written for a module of no table followed by an entry
\* of MAINLINE_MODULES, and has the one line of the entry.
C21_Witness ==
  /\ call.op = "dist_generate_sdk_supported_modules_file"
  /\ Len(call.modules) = 2
  /\ call.modules[1] = AdbdModule
  /\ \E j \in DOMAIN MAINLINE_MODULES : MAINLINE_MODULES[j] = call.modules[2]
  /\ Len(LinesOf(call.result.value[1], <<>>)) = 1

\* The comparisons that functools.total_ordering derives: a < b is a <= b
\* and not a == b.
BuildRelease__lt__(a, b) == BuildRelease__le__(a, b) /\ ~BuildRelease__eq__(a, b)

\* C22: after any number of BuildRelease constructions the i-th build release
\* of ALL_BUILD_RELEASES (counted from 0) has the ordinal i, so the ordinals
\* are distinct and strictly increasing in creation order; ==, <=, < and >
\* of two build releases agree with the comparison of their ordinals, which
\* makes < a strict total order; and the build releases of the script are
\* Q < R < S < Tiramisu < UpsideDownCake < next < latest, latest being the
\* maximum.
C22_OrdinalsFollowCreation ==
  /\ call.op = "BuildRelease" =>
       LET all == call.result.value[1]
       IN  /\ \A i \in DOMAIN all : all[i].ordinal = i - 1
           /\ \A i, j \in DOMAIN all :
                /\ i < j => all[i].ordinal < all[j].ordinal
                /\ BuildRelease__eq__(all[i], all[j]) <=> i = j
                /\ BuildRelease__le__(all[i], all[j]) <=> i <= j
                /\ BuildRelease__lt__(all[i], all[j]) <=> i < j
                /\ BuildRelease__gt__(all[i], all[j]) <=> i > j
           /\ \A i, j, k \in DOMAIN all :
                BuildRelease__lt__(all[i], all[j]) /\ BuildRelease__lt__(all[j], all[k])
                  => BuildRelease__lt__(all[i], all[k])
           /\ all[Len(all)].name = call.name
  /\ <<Q.name, R.name, S.name, Tiramisu.name, UpsideDownCake.name, NEXT.name, LATEST.name>>
       = <<str.Q, str.R, str.S, str.Tiramisu, str.UpsideDownCake, str.next, str.latest>>
  /\ BuildRelease__lt__(Q, R) /\ BuildRelease__lt__(R, S) /\ BuildRelease__lt__(S, Tiramisu)
  /\ BuildRelease__lt__(Tiramisu, UpsideDownCake) /\ BuildRelease__lt__(UpsideDownCake, NEXT)
  /\ BuildRelease__lt__(NEXT, LATEST)
  /\ \A i \in DOMAIN ALL_BUILD_RELEASES : BuildRelease__le__(ALL_BUILD_RELEASES[i], LATEST)

\* The constructions of the script have been made, which give
\* ALL_BUILD_RELEASES, and one more construction with the name of the first
\* has been made after them.
C22_Witness ==
  /\ call.op = "BuildRelease"
  /\ Len(call.result.value[1]) = Len(ALL_BUILD_RELEASES) + 1
  /\ SubSeq(call.result.value[1], 1, Len(ALL_BUILD_RELEASES)) = ALL_BUILD_RELEASES
  /\ call.result.value[1][Len(ALL_BUILD_RELEASES) + 1].name = str.Q
  /\ call.result.value[1][Len(ALL_BUILD_RELEASES) + 1].ordinal = Len(ALL_BUILD_RELEASES)

\* ---------------------------------------------------------------------------
\* The blocks of a file as the specification reads them: a block begins with
\* a line that matches the block-header pattern and stands in no block, and
\* ends with the next line that is exactly "}".
\* ---------------------------------------------------------------------------

\* For line i of lines, the index blk of the header line of its block (0 for a
\* line in no block) and whether it is the header, a body line or the end.
RECURSIVE Place(_, _)
Place(lines, i) ==
  IF i = 0 THEN [blk |-> 0, role |-> "outside"]
  ELSE LET prev == Place(lines, i - 1)
       IN  IF prev.role \in {"header", "body"}
           THEN [blk |-> prev.blk,
                 role |-> IF lines[i] = ModuleEndLine THEN "end" ELSE "body"]
           ELSE IF IsModuleHeader(lines[i])
           THEN [blk |-> i, role |-> "header"]
           ELSE [blk |-> 0, role |-> "outside"]

\* The places of all lines.
Places(lines) == [i \in DOMAIN lines |-> Place(lines, i)]

\* The header lines of the blocks, in the order of the file.
BlockHeaders(lines) ==
  LET at == Places(lines)
  IN  SelectSeq([i \in DOMAIN lines |-> i], LAMBDA i : at[i].role = "header")

\* The block that begins at line h has a sentinel line in its body.
HasSentinel(lines, h) ==
  LET at == Places(lines)
  IN  \E i \in DOMAIN lines :
        at[i].blk = h /\ at[i].role = "body" /\ lines[i] = PREFER_LINE

\* The SoongConfigBoilerplateInserter (the LEGACY transform) has been applied
\* to an input file, which is original.
LegacyApplied ==
  /\ Len(applied) = 1
  /\ applied[1].type = "SoongConfigBoilerplateInserter"

\* The identifiers of the blocks of the output that are not
\* soong_config_module_type declarations, in the order of the file.
OutputIdentifiers ==
  LET heads == BlockHeaders(file.lines)
      used == SelectSeq(heads,
                LAMBDA h : file.lines[h].args[1] # str.soong_config_module_type)
  IN  [n \in DOMAIN used |-> file.lines[used[n]].args[1]]

\* C23: in the output of the SoongConfigBoilerplateInserter every block keeps
\* its identifier if its body has no sentinel line, and has the identifier
\* prefix + original identifier, the prefix prepended once, if its body has
\* one or more sentinel lines.
C23_IdentifierPrefixedOnce ==
  LegacyApplied =>
    LET heads == BlockHeaders(original.lines)
    IN  OutputIdentifiers =
          [n \in DOMAIN heads |->
             IF HasSentinel(original.lines, heads[n])
             THEN applied[1].configModuleTypePrefix \o original.lines[heads[n]].args[1]
             ELSE original.lines[heads[n]].args[1]]

\* The lines of the output at which a soong_config_module_type declaration
\* begins, in the order of the file.
Declarations ==
  SelectSeq([i \in DOMAIN file.lines |-> i],
            LAMBDA i : /\ file.lines[i] = ModuleHeaderLine(str.soong_config_module_type)
                       /\ i + 2 <= Len(file.lines)
                       /\ file.lines[i + 1].k = "    name: ,"
                       /\ file.lines[i + 2].k = "    module_type: ,")

\* The original identifiers of the blocks of the input whose body has a
\* sentinel line.
RewrittenTypes ==
  {original.lines[h].args[1] :
     h \in {x \in DOMAIN original.lines :
              /\ Place(original.lines, x).role = "header"
              /\ HasSentinel(original.lines, x)}}

\* C24: the output of the SoongConfigBoilerplateInserter has exactly one
\* soong_config_module_type declaration for each distinct original type of a
\* block that was rewritten, named prefix + type; the declarations are in
\* ascending order of the type; they stand after the header comment lines and
\* before the first line of the body; and the identifier of every block of
\* the body that holds the inserted fragment is the name of a declaration.
C24_OneDeclarationPerType ==
  LegacyApplied =>
    LET decls == Declarations
        types == [n \in DOMAIN decls |-> file.lines[decls[n] + 2].args[1]]
        names == [n \in DOMAIN decls |-> file.lines[decls[n] + 1].args[1]]
        header == HeaderCount(original.lines, 1)
        at == Places(file.lines)
    IN  /\ {types[n] : n \in DOMAIN types} = RewrittenTypes
        /\ Len(types) = Cardinality(RewrittenTypes)
        /\ \A n \in DOMAIN types :
             /\ names[n] = applied[1].configModuleTypePrefix \o types[n]
             /\ n > 1 => StrLess(types[n - 1], types[n])
             /\ decls[n] > header
        /\ decls # <<>> =>
             \A i \in (header + 1)..decls[Len(decls)] :
               \/ file.lines[i] = EmptyLine
               \/ IsCommentLine(file.lines[i])
               \/ file.lines[at[i].blk].args[1] = str.soong_config_module_type
        /\ \A i \in DOMAIN file.lines :
             (/\ at[i].role = "body"
              /\ file.lines[i] = Line("    prefer: true,", <<>>)
              /\ file.lines[at[i].blk].args[1] # str.soong_config_module_type) =>
               \E n \in DOMAIN names : names[n] = file.lines[at[i].blk].args[1]

\* The elements of a are elements of b in the same order.
RECURSIVE IsSubsequence(_, _)
IsSubsequence(a, b) ==
  IF a = <<>> THEN TRUE
  ELSE IF b = <<>> THEN FALSE
  ELSE IsSubsequence(IF Head(a) = Head(b) THEN Tail(a) ELSE a, Tail(b))

\* C25: the SoongConfigBoilerplateInserter keeps the leading comment lines
\* as the header and treats the first line that is no comment as the first
\* line of the body: that line is in the output, behind the header, and if
\* it is a block header its block is in the output with its identifier or
\* the prefixed identifier; and no line of the input other than a sentinel
\* line is missing from the output, the block headers being there with
\* their identifier or the prefixed one.
C25_FirstBodyLineKept ==
  LegacyApplied =>
    LET header == HeaderCount(original.lines, 1)
        prefix == applied[1].configModuleTypePrefix
        kept == SelectSeq(original.lines,
                          LAMBDA l : l # PREFER_LINE /\ ~IsModuleHeader(l))
    IN  /\ Len(file.lines) >= header
        /\ SubSeq(file.lines, 1, header) = SubSeq(original.lines, 1, header)
        /\ header < Len(original.lines) =>
             LET first == original.lines[header + 1]
             IN  IF IsModuleHeader(first)
                 THEN /\ OutputIdentifiers # <<>>
                      /\ OutputIdentifiers[1] \in {first.args[1], prefix \o first.args[1]}
                 ELSE \E i \in (header + 1)..Len(file.lines) : file.lines[i] = first
        /\ IsSubsequence(kept, file.lines)
        /\ Len(OutputIdentifiers) = Len(BlockHeaders(original.lines))

\* The text by which the UseSourceConfigVarTransformation (the INLINE
\* transform) replaces a sentinel line, for a ConfigVar.
InlineFragment(configVar) ==
  << Line("    // Do not prefer prebuilt if the Soong config variable  in namespace  is true.",
          <<configVar.name, configVar.namespace>>),
     Line("    use_source_config_var: {", <<>>),
     Line("        config_namespace: ,", <<configVar.namespace>>),
     Line("        var_name: ,", <<configVar.name>>),
     Line("    },", <<>>) >>

\* The lines text with a sentinel line in place of each fragment.
RECURSIVE Collapse(_, _)
Collapse(text, fragment) ==
  IF text = <<>> THEN <<>>
  ELSE LET found == /\ Len(text) >= Len(fragment)
                    /\ SubSeq(text, 1, Len(fragment)) = fragment
       IN  <<IF found THEN PREFER_LINE ELSE Head(text)>>
           \o Collapse(SubSeq(text, IF found THEN Len(fragment) + 1 ELSE 2, Len(text)), fragment)

\* The number of lines of lines that are equal to line.
Count(lines, line) == Cardinality({i \in DOMAIN lines : lines[i] = line})

\* The UseSourceConfigVarTransformation has been applied last, to the file
\* before, which had none of its fragments.
InlineApplied ==
  /\ applied # <<>>
  /\ applied[Len(applied)].type = "UseSourceConfigVarTransformation"
  /\ Count(before.lines, Line("    use_source_config_var: {", <<>>)) = 0

\* C26: the UseSourceConfigVarTransformation replaces every line that is
\* equal to the sentinel, wherever it stands in the file, by one
\* use_source_config_var fragment with the namespace and the name of the
\* ConfigVar; every other line is kept unchanged and in the same order (the
\* empty file becomes one empty line); there are as many fragments as the
\* input has sentinel lines; no soong_config_module_type declaration is added;
\* and the output has no sentinel line.
C26_InlineReplacesEverySentinel ==
  InlineApplied =>
    LET fragment == InlineFragment(applied[Len(applied)].configVar)
    IN  /\ Collapse(file.lines, fragment)
             = IF before.lines = <<>> THEN <<EmptyLine>> ELSE before.lines
        /\ Count(file.lines, fragment[2]) = Count(before.lines, PREFER_LINE)
        /\ Count(file.lines, ModuleHeaderLine(str.soong_config_module_type))
             = Count(before.lines, ModuleHeaderLine(str.soong_config_module_type))
        /\ Count(file.lines, PREFER_LINE) = 0

\* The transformation has been applied to a file with a sentinel line in a
\* block and a sentinel line in no block.
C26_Witness ==
  /\ InlineApplied
  /\ Len(applied) = 1
  /\ \E i, j \in DOMAIN before.lines :
       /\ before.lines[i] = PREFER_LINE
       /\ before.lines[j] = PREFER_LINE
       /\ Place(before.lines, i).role = "body"
       /\ Place(before.lines, j).role = "outside"
  /\ Count(file.lines, Line("    use_source_config_var: {", <<>>)) = 2

\* The number of sentinel lines of the input with the given role.
Sentinels(role) ==
  Cardinality({i \in DOMAIN original.lines :
                 /\ original.lines[i] = PREFER_LINE
                 /\ Place(original.lines, i).role = role})

\* The lines of the text that replaces a sentinel line in a block, without
\* their strings.
LegacyFragmentLines ==
  {"    // Do not prefer prebuilt if the Soong config variable  in namespace  is true.",
   "    prefer: true,", "    soong_config_variables: {", "        : {",
   "            prefer: false,", "        },", "    },"}

\* C27: the SoongConfigBoilerplateInserter rewrites a sentinel line if and
\* only if it lies in the body of a block, after a line that matches the
\* block-header pattern and before the next line that is exactly "}": the
\* output has one inserted fragment for each sentinel line in a block, and
\* the sentinel lines outside every block are copied unchanged; and no line of
\* an inserted fragment or of a declaration is equal to the sentinel or ends
\* a block.
C27_SentinelRewrittenIffInBlock ==
  LegacyApplied =>
    LET at == Places(file.lines)
    IN  /\ Count(file.lines, Line("    soong_config_variables: {", <<>>)) = Sentinels("body")
        /\ Count(file.lines, PREFER_LINE) = Sentinels("outside")
        /\ \A i \in DOMAIN file.lines :
             /\ file.lines[i].k \in LegacyFragmentLines =>
                  /\ file.lines[i] # PREFER_LINE
                  /\ file.lines[i] # ModuleEndLine
                  /\ at[i].role = "body"
             /\ (at[i].blk # 0
                   /\ file.lines[at[i].blk].args[1] = str.soong_config_module_type) =>
                  file.lines[i] # PREFER_LINE

\* The next step is the call of populate_dist_snapshot for an sdk of a known
\* type whose snapshot zip has been built.
AtPopulate ==
  /\ pc = "creator"
  /\ tasks # <<>>
  /\ Head(tasks).op \in {"populate_unbundled_dist", "populate_bundled_dist"}
  /\ ~sdk_type_from_name(Head(tasks).sdk).raised
  /\ Exists(out, sdk_snapshot_zip_file(Head(tasks).snapshots_dir, Head(tasks).sdk))

\* The list of transformations of the sdk of the next step.
ListAtPopulate ==
  transformations(Head(tasks).module[1], Head(tasks).build_release,
                  sdk_type_from_name(Head(tasks).sdk).value[1])

\* C28: when the list of transformations of an sdk is empty, as it is for
\* the build release R and for a bundled module, dist_sdk_snapshot_zip copies
\* the snapshot zip to the dist directory unchanged: the step makes no
\* temporary directory, is followed by no extraction, transformation or zip
\* step, leaves the source zip as it is, and the zip in the dist has the
\* Android.bp entry of the built zip, content and time.
C28_EmptyListCopies ==
  [][AtPopulate =>
       LET t == Head(tasks)
           src == FileAt(out, sdk_snapshot_zip_file(t.snapshots_dir, t.sdk))
           dest == DestSdkZip(t, sdk_type_from_name(t.sdk).value[1])
       IN  /\ (is_bundled(t.module[1]) \/ t.build_release = R) => ListAtPopulate = <<>>
           /\ ListAtPopulate = <<>> =>
                /\ tmp_dirs' = tmp_dirs
                /\ tmp_dirs = <<>>
                /\ tasks' = Tail(tasks)
                /\ out' = out
                /\ Exists(dist', dest)
                /\ FileAt(dist', dest).bp = src.bp
                /\ FileAt(dist', dest).time = src.time
                /\ log' = Append(log, log'[Len(log')])
                /\ log'[Len(log')].state = "REPACKAGED"]_vars

\* The snapshot zips of a bundled module have been copied: every step of the
\* log is a build or a copy, the zips are in the dist with the built
\* Android.bp and no temporary directory was made.
C28_Witness ==
  /\ pc = "done"
  /\ \E i \in DOMAIN log : log[i].state = "REPACKAGED"
  /\ \A i \in DOMAIN log :
       /\ log[i].state \in {"BUILT", "REPACKAGED"}
       /\ log[i].state = "REPACKAGED" => TransformationsOfEvent(log[i]) = <<>>
  /\ \A i \in DOMAIN modules : is_bundled(modules[i])
  /\ dist # {}
  /\ \A f \in dist :
       /\ SubSeq(f.path, 1, Len(bundled_mainline_sdks_dir)) = bundled_mainline_sdks_dir
       /\ f.bp = Some(built_bp)
       /\ f.time = None
  /\ built_bp = SampleBp
  /\ tmp_dirs = <<>>

\* The module gets a snapshot for R: it is required for R and has for_r_build.
ForR(m) == is_required_for(m, R) /\ m.for_r_build # None

\* mainline-sdks/for-R-build/current/<apex>/sdk/<first sdk>-current.zip
RZipPath(m) ==
  << str.mainline_sdks, str.for_R_build, str.current, m.apex, str.sdk,
     m.sdks[1] \o str.dash \o str.current \o str.dot_zip >>

\* C29: for the build release R a module gets a zip in the dist under
\* mainline-sdks/for-R-build/current/<apex>/sdk/ if and only if it is
\* required for R and has for_r_build: every file of the dist under
\* mainline-sdks/for-R-build is the zip of such a module of the run, named
\* after the first sdk of the module; only such modules are built for R; and
\* when the run is done every such module has been built and has its zip.
C29_RBuildOnlyForRModules ==
  /\ \A f \in dist :
       (Len(f.path) >= 2 /\ f.path[1] = str.mainline_sdks /\ f.path[2] = str.for_R_build) =>
         /\ \E i \in DOMAIN build_releases : build_releases[i] = R
         /\ \E i \in DOMAIN modules : ForR(modules[i]) /\ f.path = RZipPath(modules[i])
  /\ \A n \in DOMAIN log :
       log[n].build_release = R.name =>
         \A apex \in log[n].modules :
           \E i \in DOMAIN modules : ForR(modules[i]) /\ modules[i].apex = apex
  /\ (pc = "done" /\ \E i \in DOMAIN build_releases : build_releases[i] = R) =>
       \A i \in DOMAIN modules :
         ForR(modules[i]) =>
           /\ Exists(dist, RZipPath(modules[i]))
           /\ \E n \in DOMAIN log :
                /\ log[n].state = "BUILT"
                /\ log[n].build_release = R.name
                /\ modules[i].apex \in log[n].modules

\* A run for R with ipsec, which has for_r_build, and conscrypt, which is
\* required for R and has none, is done: the dist has the zip of ipsec for R
\* and no file of conscrypt.
C29_Witness ==
  /\ pc = "done"
  /\ build_releases = <<R>>
  /\ {modules[i].apex : i \in DOMAIN modules} = {str.com_android_ipsec, str.com_android_conscrypt}
  /\ \A i \in DOMAIN modules :
       /\ is_required_for(modules[i], R)
       /\ modules[i].apex = str.com_android_ipsec => ForR(modules[i])
       /\ modules[i].apex = str.com_android_conscrypt => ~ForR(modules[i])
  /\ {f.path : f \in dist}
       = {<< str.mainline_sdks, str.for_R_build, str.current, str.com_android_ipsec, str.sdk,
             str.ipsec_module_sdk \o str.dash \o str.current \o str.dot_zip >>}

\* The extension versions other than -1 among those read in the call.
Finalized == {call.versions[i] : i \in DOMAIN call.versions} \ {-1}

\* C30: in the Gantry metadata of an sdk last_finalized_version is -1 when
\* no scope of a java sdk library has an extension version other than -1, is
\* the common value when all extension versions other than -1 are equal, and
\* when two extension versions other than -1 differ the call fails with an
\* error and no metadata file is written.
C30_LastFinalizedVersion ==
  call.op = "create_snapshot_gantry_metadata_and_api_diff" =>
    /\ Finalized = {} =>
         /\ ~call.result.raised
         /\ call.result.value[1].last_finalized_version = -1
    /\ \A v \in Finalized :
         Finalized = {v} =>
           /\ ~call.result.raised
           /\ call.result.value[1].last_finalized_version = v
    /\ (\E v, w \in Finalized : v # w) =>
         /\ call.result.raised
         /\ "gantry-metadata.json" \notin call.written
    /\ ~call.result.raised => "gantry-metadata.json" \in call.written

\* The call has been made for scopes of which some are not finalized and the
\* others have the version 5, and the metadata has 5.
C30_Witness ==
  /\ call.op = "create_snapshot_gantry_metadata_and_api_diff"
  /\ Len(call.versions) = 4
  /\ {call.versions[i] : i \in DOMAIN call.versions} = {-1, 5}
  /\ ~call.result.raised
  /\ call.result.value[1].last_finalized_version = 5
  /\ "gantry-metadata.json" \in call.written
====
